---- MODULE Spec2Model ----
(***************************************************************************)
(* Experiment intelligence core: MemoryStore (memory_store.py),            *)
(* ExperimentPlanner (experiment_planner.py), ExperimentPredictor          *)
(* (experiment_predictor.py) and SafetyValidator (safety_validator.py).    *)
(*                                                                         *)
(* Python dicts are functions whose DOMAIN is the key set; lists are       *)
(* sequences.  Python numbers are exact (extended) rationals [n, d];       *)
(* parameter values are tagged so that isinstance checks can be modelled.  *)
(***************************************************************************)
EXTENDS Integers, Sequences, FiniteSets, TLC

VARIABLES experiments, component_knowledge, relationship_knowledge,
          risk_profiles, scaler, classifier, pc, call

vars == <<experiments, component_knowledge, relationship_knowledge,
          risk_profiles, scaler, classifier, pc, call>>

(***************************************************************************)
(* Bound of the exploration.                                               *)
(***************************************************************************)
MaxHist == 2

(***************************************************************************)
(* Python values held in parameter dicts and duration fields.              *)
(*   Num(n)       an int                                                   *)
(*   Word(s)      a str without a leading number, e.g. "latency"           *)
(*   DurStr(n,u)  the str "<n><u>", e.g. "30s"                             *)
(*   PosInf/NegInf  float('inf') / float('-inf')                           *)
(***************************************************************************)
Num(n) == [k |-> "num", n |-> n, s |-> ""]
Word(s) == [k |-> "str", n |-> -1, s |-> s]
DurStr(n, u) == [k |-> "str", n |-> n, s |-> u]
PosInf == [k |-> "inf", n |-> 0, s |-> ""]
NegInf == [k |-> "ninf", n |-> 0, s |-> ""]

\* isinstance(value, (int, float))
IsNumeric(v) == v.k \in {"num", "inf", "ninf"}

\* a < b on ints and infinities
VLt(a, b) ==
    CASE a.k = "ninf" -> b.k # "ninf"
      [] a.k = "inf" -> FALSE
      [] OTHER -> CASE b.k = "inf" -> TRUE
                    [] b.k = "ninf" -> FALSE
                    [] OTHER -> a.n < b.n

\* Python min(a, b) / max(a, b): the first argument wins ties
PyMin(a, b) == IF VLt(b, a) THEN b ELSE a
PyMax(a, b) == IF VLt(a, b) THEN b ELSE a

(***************************************************************************)
(* Exact arithmetic for the float expressions.  A number is [n, d] with    *)
(* d > 0 in lowest terms; [0, 0] is nan.                                   *)
(***************************************************************************)
RECURSIVE Gcd(_, _)
Gcd(a, b) == IF b = 0 THEN a ELSE Gcd(b, a % b)

Abs(x) == IF x < 0 THEN -x ELSE x

Frac(n, d) ==
    LET g == Gcd(Abs(n), d)
    IN  IF g = 0 THEN [n |-> 0, d |-> 1] ELSE [n |-> n \div g, d |-> d \div g]

NaN == [n |-> 0, d |-> 0]
IsNaN(x) == x.d = 0
RInt(i) == [n |-> i, d |-> 1]
RAdd(x, y) == IF IsNaN(x) \/ IsNaN(y) THEN NaN
              ELSE Frac(x.n * y.d + y.n * x.d, x.d * y.d)
RSub(x, y) == IF IsNaN(x) \/ IsNaN(y) THEN NaN
              ELSE Frac(x.n * y.d - y.n * x.d, x.d * y.d)
RMul(x, y) == IF IsNaN(x) \/ IsNaN(y) THEN NaN
              ELSE Frac(x.n * y.n, x.d * y.d)
\* comparisons with nan are False
RLe(x, y) == ~IsNaN(x) /\ ~IsNaN(y) /\ x.n * y.d <= y.n * x.d
RLt(x, y) == ~IsNaN(x) /\ ~IsNaN(y) /\ x.n * y.d < y.n * x.d
\* Python min(x, 1.0)
RMin1(x) == IF RLt(RInt(1), x) THEN RInt(1) ELSE x

RECURSIVE RSum(_)
RSum(xs) == IF xs = <<>> THEN RInt(0) ELSE RAdd(RSum(SubSeq(xs, 1, Len(xs) - 1)), xs[Len(xs)])

RECURSIVE ISum(_)
ISum(xs) == IF xs = <<>> THEN 0 ELSE xs[1] + ISum(Tail(xs))

\* np.mean of a non-empty list of numbers
RMean(xs) == LET t == RSum(xs)
             IN  IF IsNaN(t) THEN NaN ELSE Frac(t.n, t.d * Len(xs))

SeqToSet(xs) == {xs[i] : i \in 1..Len(xs)}

(***************************************************************************)
(* class ExperimentOutcome                                                 *)
(***************************************************************************)
SUCCESS == "success"
PARTIAL_SUCCESS == "partial_success"
FAILURE == "failure"
UNSAFE == "unsafe"
INTERRUPTED == "interrupted"

IsSuccessful(exp) == exp.outcome \in {SUCCESS, PARTIAL_SUCCESS}
IsFailed(exp) == exp.outcome \in {FAILURE, UNSAFE}

(***************************************************************************)
(* ExperimentMemory: the fields the store and the planner read.            *)
(***************************************************************************)
ExperimentMemory(type, target, parameters, outcome, affected, duration, hour) ==
    [experiment_type |-> type, target_component |-> target,
     parameters |-> parameters, outcome |-> outcome,
     affected_components |-> affected, duration |-> duration,
     timestamp |-> [hour |-> hour]]

EmptyDict == [x \in {} |-> 0]

\* dict.update / dict item assignment: entries of new override those of old
DictUpdate(old, new) ==
    [x \in DOMAIN old \cup DOMAIN new |-> IF x \in DOMAIN new THEN new[x] ELSE old[x]]

(***************************************************************************)
(* MemoryStore._calculate_safe_ranges                                      *)
(***************************************************************************)
RECURSIVE RangeFold(_, _, _)
RangeFold(successful, param, i) ==
    IF i = 0 THEN [min |-> PosInf, max |-> NegInf]
    ELSE LET r == RangeFold(successful, param, i - 1)
             ps == successful[i].parameters
         IN  IF param \in DOMAIN ps /\ IsNumeric(ps[param])
             THEN [min |-> PyMin(r.min, ps[param]), max |-> PyMax(r.max, ps[param])]
             ELSE r

CalculateSafeRanges(exps) ==
    LET successful == SelectSeq(exps, IsSuccessful)
        params == UNION {DOMAIN successful[i].parameters : i \in 1..Len(successful)}
    IN  [p \in params |-> RangeFold(successful, p, Len(successful))]

(***************************************************************************)
(* MemoryStore._identify_failure_patterns                                  *)
(***************************************************************************)
PatternOf(exp) ==
    [type |-> exp.experiment_type, parameters |-> exp.parameters,
     affected_components |-> exp.affected_components, duration |-> exp.duration]

RECURSIVE PatternFold(_, _)
PatternFold(failed, i) ==
    IF i = 0 THEN <<>>
    ELSE LET patterns == PatternFold(failed, i - 1)
             pattern == PatternOf(failed[i])
         IN  IF pattern \in SeqToSet(patterns) THEN patterns
             ELSE Append(patterns, pattern)

IdentifyFailurePatterns(exps) ==
    LET failed == SelectSeq(exps, IsFailed)
    IN  PatternFold(failed, Len(failed))

(***************************************************************************)
(* MemoryStore._build_risk_profile: the new risk_profiles dict             *)
(***************************************************************************)
SuccessRate(exps) == Frac(Len(SelectSeq(exps, IsSuccessful)), Len(exps))

AvgImpact(exps) ==
    RMean([i \in 1..Len(exps) |-> RInt(Len(exps[i].affected_components))])

RiskScore(success_rate, avg_impact) == RMul(RSub(RInt(1), success_rate), avg_impact)

ExperimentsOf(exps, component) ==
    SelectSeq(exps, LAMBDA exp : exp.target_component = component)

\* a profile once stored is never rebuilt
StoreProfileIfAbsent(profiles, component, profile) ==
    IF component \in DOMAIN profiles THEN profiles
    ELSE DictUpdate(profiles, component :> profile)

\* self.risk_profiles[component] = {...}
StoreProfile(profiles, component, profile) ==
    DictUpdate(profiles, component :> profile)

BuildRiskProfile(exps, knowledge, profiles, component) ==
    IF component \notin DOMAIN knowledge THEN profiles
    ELSE LET mine == ExperimentsOf(exps, component)
         IN  IF mine = <<>> THEN profiles
             ELSE LET success_rate == SuccessRate(mine)
                      avg_impact == AvgImpact(mine)
                  IN  StoreProfile(profiles, component,
                        [success_rate |-> success_rate,
                         avg_impact |-> avg_impact,
                         risk_score |-> RiskScore(success_rate, avg_impact),
                         safe_parameter_ranges |-> CalculateSafeRanges(mine),
                         failure_patterns |-> IdentifyFailurePatterns(mine)])

(***************************************************************************)
(* MemoryStore._update_knowledge, by the part of the store it writes       *)
(***************************************************************************)
NewKnowledge ==
    [experiments |-> 0, success_rate |-> RInt(0), avg_duration |-> RInt(0),
     failure_patterns |-> <<>>, safe_parameters |-> EmptyDict,
     risky_parameters |-> EmptyDict]

UpdateComponentKnowledge(knowledge, memory) ==
    LET c == memory.target_component
        old == IF c \in DOMAIN knowledge THEN knowledge[c] ELSE NewKnowledge
        counted == [old EXCEPT !.experiments = @ + 1]
        new == IF IsSuccessful(memory)
               THEN [counted EXCEPT !.safe_parameters = DictUpdate(@, memory.parameters)]
               ELSE [counted EXCEPT !.risky_parameters = DictUpdate(@, memory.parameters)]
    IN  DictUpdate(knowledge, c :> new)

\* the co-occurrence recorded but not counted
RECURSIVE RelFoldFlag(_, _, _)
RelFoldFlag(rel, affected, i) ==
    IF i = 0 THEN rel
    ELSE DictUpdate(RelFoldFlag(rel, affected, i - 1), affected[i] :> 1)

RECURSIVE RelFold(_, _, _)
RelFold(rel, affected, i) ==
    IF i = 0 THEN rel
    ELSE LET r == RelFold(rel, affected, i - 1)
             a == affected[i]
         IN  DictUpdate(r, a :> ((IF a \in DOMAIN r THEN r[a] ELSE 0) + 1))

UpdateRelationships(relationships, memory) ==
    LET c == memory.target_component
        affected == memory.affected_components
    IN  IF affected = <<>> THEN relationships
        ELSE DictUpdate(relationships,
               c :> RelFold(IF c \in DOMAIN relationships THEN relationships[c]
                            ELSE EmptyDict, affected, Len(affected)))

\* the new record put first
PrependMemory(exps, memory) == <<memory>> \o exps

\* MemoryStore.add_experiment: self.experiments.append(memory)
AppendMemory(exps, memory) == Append(exps, memory)

(***************************************************************************)
(* MemoryStore._calculate_similarity                                       *)
(***************************************************************************)
SimilarityWeights == <<Frac(3, 10), Frac(3, 10), Frac(1, 5), Frac(1, 5)>>

\* len(a & b) / len(a | b) when a & b is non-empty, else 0.0
Overlap(a, b) ==
    IF a \cap b = {} THEN RInt(0)
    ELSE Frac(Cardinality(a \cap b), Cardinality(a \cup b))

CalculateSimilarity(experiment, memory) ==
    LET type_sim == IF experiment.type = memory.experiment_type THEN RInt(1) ELSE RInt(0)
        target_sim == IF experiment.parameters.target_component
                            = Word(memory.target_component)
                      THEN RInt(1) ELSE RInt(0)
        param_sim == Overlap(DOMAIN experiment.parameters, DOMAIN memory.parameters)
        comp_sim == IF "affected_components" \in DOMAIN experiment
                       /\ memory.affected_components # <<>>
                    THEN Overlap(SeqToSet(experiment.affected_components),
                                 SeqToSet(memory.affected_components))
                    ELSE RInt(0)
    IN  RSum(<<RMul(SimilarityWeights[1], type_sim),
               RMul(SimilarityWeights[2], target_sim),
               RMul(SimilarityWeights[3], param_sim),
               RMul(SimilarityWeights[4], comp_sim)>>)

(***************************************************************************)
(* MemoryStore.get_similar_experiments                                     *)
(***************************************************************************)
\* a default threshold above 0.7
StricterThreshold == Frac(4, 5)

DefaultThreshold == Frac(7, 10)

\* the threshold taken as exclusive
IsSimilarStrict(similarity, threshold) == RLt(threshold, similarity)

IsSimilar(similarity, threshold) == RLe(threshold, similarity)

GetSimilarExperiments(exps, experiment, threshold) ==
    SelectSeq(exps, LAMBDA mem :
                IsSimilar(CalculateSimilarity(experiment, mem), threshold))

(***************************************************************************)
(* MemoryStore.get_component_risk_profile: the risk_profiles dict after    *)
(* the call; the value returned is its entry for the component             *)
(***************************************************************************)
\* the default with the zero rate of a fresh component_knowledge entry
DefaultProfileZeroRate ==
    [success_rate |-> RInt(0), avg_impact |-> RInt(1), risk_score |-> Frac(1, 2),
     safe_parameter_ranges |-> EmptyDict, failure_patterns |-> <<>>]

DefaultProfile ==
    [success_rate |-> Frac(1, 2), avg_impact |-> RInt(1), risk_score |-> Frac(1, 2),
     safe_parameter_ranges |-> EmptyDict, failure_patterns |-> <<>>]

GetComponentRiskProfile(exps, knowledge, profiles, component) ==
    IF component \in DOMAIN profiles THEN profiles
    ELSE LET built == BuildRiskProfile(exps, knowledge, profiles, component)
         IN  IF component \in DOMAIN built THEN built
             ELSE DictUpdate(built, component :> DefaultProfile)

(***************************************************************************)
(* MemoryStore.get_component_relationships                                 *)
(***************************************************************************)
GetComponentRelationships(relationships, component) ==
    IF component \in DOMAIN relationships THEN relationships[component] ELSE EmptyDict

(***************************************************************************)
(* Results of code that may raise.                                         *)
(***************************************************************************)
Ok(v) == [raised |-> FALSE, value |-> v]
Raise(e) == [raised |-> TRUE, error |-> e]

\* int(x.rstrip("s")) for a str x
ParseSeconds(x) ==
    IF x.k = "str" /\ x.n >= 0 /\ x.s \in {"s", ""} THEN Ok(x.n)
    ELSE Raise("ValueError")

\* f"{n}s"
FormatSeconds(n) == DurStr(n, "s")

\* experiment.get("duration", "30s")
DefaultDuration == DurStr(30, "s")
DurationField(experiment) ==
    IF "duration" \in DOMAIN experiment THEN experiment.duration ELSE DefaultDuration

(***************************************************************************)
(* ExperimentPlanner._adjust_parameters                                    *)
(***************************************************************************)
Clamp(value, safe_min, safe_max) ==
    IF VLt(value, safe_min) THEN safe_min
    ELSE IF VLt(safe_max, value) THEN safe_max
    ELSE value

AdjustParameters(experiment, similar, risk_profile) ==
    IF similar = <<>> THEN experiment
    ELSE LET safe_ranges == risk_profile.safe_parameter_ranges
             ps == experiment.parameters
         IN  [experiment EXCEPT !.parameters =
                [p \in DOMAIN ps |->
                    IF p \in DOMAIN safe_ranges /\ IsNumeric(ps[p])
                    THEN Clamp(ps[p], safe_ranges[p].min, safe_ranges[p].max)
                    ELSE ps[p]]]

(***************************************************************************)
(* ExperimentPlanner._add_safety_measures                                  *)
(***************************************************************************)
\* the basic checks without the timeout check
BasicChecksNoTimeout ==
    <<[name |-> "monitoring", description |-> "Ensure monitoring is enabled"],
      [name |-> "rollback", description |-> "Verify rollback procedure"]>>

BasicChecks ==
    <<[name |-> "monitoring", description |-> "Ensure monitoring is enabled"],
      [name |-> "rollback", description |-> "Verify rollback procedure"],
      [name |-> "timeout", description |-> "Set appropriate timeouts"]>>

\* f"prevent_{pattern['type']}" over the experiment types of the model
PreventName(type) ==
    CASE type = "network_failure" -> "prevent_network_failure"
      [] type = "resource_exhaustion" -> "prevent_resource_exhaustion"
      [] OTHER -> "prevent_other"

\* f"Prevent {pattern['type']} failure pattern"
PreventDescription(type) ==
    CASE type = "network_failure" -> "Prevent network_failure failure pattern"
      [] type = "resource_exhaustion" -> "Prevent resource_exhaustion failure pattern"
      [] OTHER -> "Prevent other failure pattern"

PatternCheck(pattern) ==
    [name |-> PreventName(pattern.type),
     description |-> PreventDescription(pattern.type),
     parameters |-> pattern.parameters]

RECURSIVE CheckFold(_, _, _)
CheckFold(checks, patterns, i) ==
    IF i = 0 THEN checks
    ELSE LET cs == CheckFold(checks, patterns, i - 1)
             check == PatternCheck(patterns[i])
         IN  IF check \in SeqToSet(cs) THEN cs ELSE Append(cs, check)

AddSafetyMeasures(experiment, risk_profile) ==
    LET present == IF "safety_checks" \in DOMAIN experiment
                   THEN experiment.safety_checks ELSE <<>>
        patterns == risk_profile.failure_patterns
    IN  DictUpdate(experiment, "safety_checks" :>
            CheckFold(present \o BasicChecks, patterns, Len(patterns)))

(***************************************************************************)
(* ExperimentPlanner._optimize_duration                                    *)
(***************************************************************************)
\* int(np.median(xs)) for a non-empty list of non-negative ints
MedianInt(xs) ==
    LET sorted == SortSeq(xs, LAMBDA a, b : a < b)
        n == Len(sorted)
    IN  IF n % 2 = 1 THEN sorted[(n + 1) \div 2]
        ELSE (sorted[n \div 2] + sorted[n \div 2 + 1]) \div 2

\* the median taken whatever the current duration
AlwaysOptimal(current_duration, optimal_duration) == optimal_duration

ShorterOf(current_duration, optimal_duration) ==
    IF current_duration > optimal_duration THEN optimal_duration ELSE current_duration

OptimizeDuration(experiment, similar) ==
    IF similar = <<>> THEN Ok(experiment)
    ELSE LET successful == SelectSeq(similar, IsSuccessful)
             parsed == [i \in 1..Len(successful) |-> ParseSeconds(successful[i].duration)]
         IN  IF \E i \in 1..Len(parsed) : parsed[i].raised THEN Raise("ValueError")
             ELSE IF successful = <<>> THEN Ok(experiment)
             ELSE LET optimal_duration ==
                          MedianInt([i \in 1..Len(parsed) |-> parsed[i].value])
                      current == ParseSeconds(DurationField(experiment))
                  IN  IF current.raised THEN Raise("ValueError")
                      ELSE IF ShorterOf(current.value, optimal_duration) # current.value
                      THEN Ok(DictUpdate(experiment,
                                "duration" :> FormatSeconds(optimal_duration)))
                      ELSE Ok(experiment)

(***************************************************************************)
(* ExperimentPlanner._add_monitoring                                       *)
(***************************************************************************)
BaseMetrics == <<"cpu_usage", "memory_usage", "error_rate", "latency">>
DatabaseMetrics == <<"connection_count", "query_latency", "transaction_rate">>
CacheMetrics == <<"hit_rate", "eviction_rate", "memory_fragmentation">>

\* system_analysis.get(key, [])
ListOf(system_analysis, key) ==
    IF key \in DOMAIN system_analysis THEN system_analysis[key] ELSE <<>>

ComponentMetrics(system_analysis, target) ==
    LET components == ListOf(system_analysis, "components")
        hits == SelectSeq(components, LAMBDA c : Word(c.name) = target)
    IN  IF hits = <<>> THEN <<>>
        ELSE IF hits[1].type = "database" THEN DatabaseMetrics
        ELSE IF hits[1].type = "cache" THEN CacheMetrics
        ELSE <<>>

AddMonitoring(experiment, system_analysis) ==
    LET present == IF "monitoring" \in DOMAIN experiment
                   THEN experiment.monitoring ELSE EmptyDict
        metrics == BaseMetrics
                   \o ComponentMetrics(system_analysis,
                                       experiment.parameters.target_component)
    IN  DictUpdate(experiment, "monitoring" :> DictUpdate(present, "metrics" :> metrics))

(***************************************************************************)
(* ExperimentPlanner.enhance_experiment.  experiment.copy() is shallow:    *)
(* value is the returned dict, caller the dict the caller passed, whose    *)
(* parameters, safety_checks and monitoring objects are shared with it.    *)
(***************************************************************************)
CallerView(experiment, enhanced) ==
    [x \in DOMAIN experiment |->
        IF x \in {"parameters", "safety_checks", "monitoring"} /\ x \in DOMAIN enhanced
        THEN enhanced[x] ELSE experiment[x]]

EnhanceExperiment(exps, risk_profile, experiment, system_analysis) ==
    LET similar == GetSimilarExperiments(exps, experiment, DefaultThreshold)
        adjusted == AdjustParameters(experiment, similar, risk_profile)
        guarded == AddSafetyMeasures(adjusted, risk_profile)
        optimized == OptimizeDuration(guarded, similar)
    IN  IF optimized.raised
        THEN [raised |-> TRUE, error |-> optimized.error,
              caller |-> CallerView(experiment, guarded)]
        ELSE LET enhanced == AddMonitoring(optimized.value, system_analysis)
             IN  [raised |-> FALSE, value |-> enhanced,
                  caller |-> CallerView(experiment, enhanced)]

(***************************************************************************)
(* ExperimentPlanner._calculate_impact_risk                                *)
(***************************************************************************)
ImpactRisk(affected_components, relationships, system_analysis) ==
    IF affected_components = <<>> THEN RInt(0)
    ELSE LET critical_components == SeqToSet(ListOf(system_analysis, "critical_components"))
             critical_count == Cardinality(SeqToSet(affected_components)
                                           \cap critical_components)
             n == Len(affected_components)
             rel_strength ==
                 Frac(ISum([i \in 1..n |->
                              IF affected_components[i] \in DOMAIN relationships
                              THEN relationships[affected_components[i]] ELSE 0]), n)
         IN  RMin1(RAdd(RMul(Frac(7, 10), Frac(critical_count, n)),
                        RMul(Frac(3, 10), rel_strength)))

(***************************************************************************)
(* ExperimentPlanner._calculate_parameter_risk                             *)
(***************************************************************************)
\* (a - b) / c where a, b, c are ints or infinities and inf - x or x - (-inf)
\* is inf, inf / inf is nan
DivDiff(a, b, c) ==
    IF a.k # "num" \/ b.k # "num" \/ c.k # "num" THEN Ok(NaN)
    ELSE IF c.n = 0 THEN Raise("ZeroDivisionError")
    ELSE IF c.n < 0 THEN Ok(Frac(-(a.n - b.n), -c.n))
    ELSE Ok(Frac(a.n - b.n, c.n))

ParameterRiskOf(value, safe_min, safe_max) ==
    IF VLt(value, safe_min) THEN DivDiff(safe_min, value, safe_min)
    ELSE IF VLt(safe_max, value) THEN DivDiff(value, safe_max, safe_max)
    ELSE Ok(RInt(0))

NeutralParameterRisk == Frac(1, 2)

\* a sequence without repetition of the elements of a finite set
RECURSIVE SetToSeq(_)
SetToSeq(S) == IF S = {} THEN <<>>
               ELSE LET x == CHOOSE y \in S : TRUE
                    IN  <<x>> \o SetToSeq(S \ {x})

CalculateParameterRisk(parameters, safe_ranges) ==
    IF DOMAIN safe_ranges = {} THEN Ok(NeutralParameterRisk)
    ELSE LET ranged == SetToSeq({p \in DOMAIN parameters :
                                   p \in DOMAIN safe_ranges /\ IsNumeric(parameters[p])})
             risks == [i \in 1..Len(ranged) |->
                         ParameterRiskOf(parameters[ranged[i]],
                                         safe_ranges[ranged[i]].min,
                                         safe_ranges[ranged[i]].max)]
         IN  IF \E i \in 1..Len(risks) : risks[i].raised
             THEN Raise("ZeroDivisionError")
             ELSE IF risks = <<>> THEN Ok(NeutralParameterRisk)
             ELSE Ok(RMean([i \in 1..Len(risks) |-> risks[i].value]))

(***************************************************************************)
(* ExperimentPlanner.calculate_experiment_risk                             *)
(***************************************************************************)
RiskWeights == <<Frac(3, 10), Frac(3, 10), Frac(1, 5), Frac(1, 5)>>
MaxRiskSeconds == 300

DurationRisk(duration_secs) == RMin1(Frac(duration_secs, MaxRiskSeconds))

CalculateExperimentRisk(risk_profile, relationships, experiment, system_analysis) ==
    LET base_risk == risk_profile.risk_score
        impact_risk == ImpactRisk(IF "affected_components" \in DOMAIN experiment
                                  THEN experiment.affected_components ELSE <<>>,
                                  relationships, system_analysis)
        param_risk == CalculateParameterRisk(experiment.parameters,
                                             risk_profile.safe_parameter_ranges)
        duration_secs == ParseSeconds(DurationField(experiment))
    IN  IF param_risk.raised THEN Raise(param_risk.error)
        ELSE IF duration_secs.raised THEN Raise(duration_secs.error)
        ELSE LET duration_risk == DurationRisk(duration_secs.value)
             IN  Ok([total_risk |-> RSum(<<RMul(RiskWeights[1], base_risk),
                                           RMul(RiskWeights[2], impact_risk),
                                           RMul(RiskWeights[3], param_risk.value),
                                           RMul(RiskWeights[4], duration_risk)>>),
                     base_risk |-> base_risk,
                     impact_risk |-> impact_risk,
                     parameter_risk |-> param_risk.value,
                     duration_risk |-> duration_risk])

(***************************************************************************)
(* SafetyValidator (safety_validator.py).                                  *)
(*                                                                         *)
(* Objects whose Python type the validator inspects are tagged:            *)
(*   DictObj(d)  a dict of entries d       ListObj(xs)  a list of items xs *)
(*   IntObj(n)   the int n                                                 *)
(* system_analysis is the sequence of its items in insertion order, the    *)
(* order in which .values() yields them.  A component is a record with     *)
(* optional fields name and properties, properties being the key set of    *)
(* the properties dict.  An experiment name is the sequence of the words   *)
(* it is made of.                                                          *)
(***************************************************************************)
LOW == "low"
MEDIUM == "medium"
HIGH == "high"
CRITICAL == "critical"
RiskLevel == {LOW, MEDIUM, HIGH, CRITICAL}

DictObj(d) == [kind |-> "dict", d |-> d, xs |-> <<>>, n |-> 0]
ListObj(xs) == [kind |-> "list", d |-> EmptyDict, xs |-> xs, n |-> 0]
IntObj(n) == [kind |-> "int", d |-> EmptyDict, xs |-> <<>>, n |-> n]

None == [k |-> "none", n |-> 0, s |-> ""]

\* not value
Falsy(value) ==
    \/ value.k = "none"
    \/ value.k = "str" /\ value.n = -1 /\ value.s = ""
    \/ value.k = "num" /\ value.n = 0

Item(key, value) == [key |-> key, value |-> value]

\* system_analysis.values()
Values(system_analysis) ==
    [i \in 1..Len(system_analysis) |-> system_analysis[i].value]

\* SafetyValidator.__init__: self.safety_rules
Rule(name, description, severity, validator) ==
    [name |-> name, description |-> description, severity |-> severity,
     validator |-> validator]

SafetyRules ==
    [general |->
        <<Rule("has_rollback", "Experiment must have a rollback procedure",
               CRITICAL, "_validate_rollback"),
          Rule("has_monitoring", "System must have monitoring in place",
               HIGH, "_validate_monitoring"),
          Rule("has_timeout", "Experiment must have a timeout",
               HIGH, "_validate_timeout")>>,
     network |->
        <<Rule("has_fallback", "Service must have fallback mechanisms",
               HIGH, "_validate_fallback"),
          Rule("has_retry", "Service must have retry mechanisms",
               MEDIUM, "_validate_retry")>>,
     resource |->
        <<Rule("has_limits", "Component must have resource limits",
               HIGH, "_validate_resource_limits"),
          Rule("has_autoscaling", "Service should have autoscaling",
               MEDIUM, "_validate_autoscaling")>>,
     dependency |->
        <<Rule("has_circuit_breaker", "Service must have circuit breaker",
               HIGH, "_validate_circuit_breaker"),
          Rule("has_cache", "Service should have caching",
               MEDIUM, "_validate_cache")>>]

\* the dicts a rule's validator returns
Passed == Ok([passed |-> TRUE])
Failed(details) == Ok([passed |-> FALSE, details |-> details])
FailedWith(details, recommendation) ==
    Ok([passed |-> FALSE, details |-> details, recommendation |-> recommendation])

(***************************************************************************)
(* SafetyValidator._validate_rollback                                      *)
(***************************************************************************)
ValidateRollback(experiment, system_analysis) ==
    IF "rollback_procedure" \notin DOMAIN experiment
    THEN FailedWith(<<"No rollback procedure defined">>,
                    "Define a step-by-step rollback procedure")
    ELSE LET rollback == experiment.rollback_procedure
         IN  IF rollback.kind # "dict" \/ "steps" \notin DOMAIN rollback.d
             THEN FailedWith(<<"Rollback procedure must contain steps">>,
                             "Define specific rollback steps")
             ELSE Passed

\* experiment.get("parameters", {})
ParametersOf(experiment) ==
    IF "parameters" \in DOMAIN experiment THEN experiment.parameters ELSE EmptyDict

\* experiment.get("parameters", {}).get("target_component")
TargetOf(experiment) ==
    LET params == ParametersOf(experiment)
    IN  IF "target_component" \in DOMAIN params THEN params.target_component ELSE None

\* comp.get("properties", {})
PropertiesOf(comp) ==
    IF "properties" \in DOMAIN comp THEN comp.properties ELSE {}

\* "components" in doc
HasComponents(doc) ==
    CASE doc.kind = "dict" -> Ok("components" \in DOMAIN doc.d)
      [] doc.kind = "list" -> Ok(FALSE)
      [] OTHER -> Raise("TypeError")

(***************************************************************************)
(* SafetyValidator._validate_monitoring                                    *)
(***************************************************************************)
RECURSIVE MonitoringInDoc(_, _, _)
\* the inner loop: it breaks at the first monitored component named target
MonitoringInDoc(comps, target, i) ==
    IF i > Len(comps) THEN "none"
    ELSE IF "name" \notin DOMAIN comps[i] THEN "KeyError"
    ELSE IF target = Word(comps[i].name) /\ "monitoring" \in PropertiesOf(comps[i])
         THEN "found"
    ELSE MonitoringInDoc(comps, target, i + 1)

RECURSIVE MonitoringFound(_, _, _, _)
MonitoringFound(docs, target, i, found) ==
    IF i > Len(docs) THEN Ok(found)
    ELSE LET has == HasComponents(docs[i])
         IN  IF has.raised THEN has
             ELSE IF ~has.value THEN MonitoringFound(docs, target, i + 1, found)
             ELSE LET r == MonitoringInDoc(docs[i].d.components, target, 1)
                  IN  IF r = "KeyError" THEN Raise("KeyError")
                      ELSE MonitoringFound(docs, target, i + 1, found \/ r = "found")

\* what _validate_monitoring returns once its loops are over
MonitoringOutcome(monitoring_found, target) ==
    IF monitoring_found.raised THEN monitoring_found
    ELSE IF ~monitoring_found.value
         THEN FailedWith(<<"No monitoring found for component ", target.s>>,
                         "Set up monitoring before running the experiment")
    ELSE Passed

MonitoringOf(target, system_analysis) ==
    IF Falsy(target) THEN Failed(<<"No target component specified">>)
    ELSE MonitoringOutcome(MonitoringFound(Values(system_analysis), target, 1, FALSE),
                           target)

ValidateMonitoring(experiment, system_analysis) ==
    MonitoringOf(TargetOf(experiment), system_analysis)

(***************************************************************************)
(* SafetyValidator._validate_timeout                                       *)
(***************************************************************************)
\* re.match(r"^(\d+)([smh])$", duration)
MatchDuration(duration) ==
    duration.k = "str" /\ duration.n >= 0 /\ duration.s \in {"s", "m", "h"}

DurationMultipliers == [s |-> 1, m |-> 60, h |-> 3600]
MaxDurationSeconds == 3600

TooLongOrEqual(duration_seconds) == duration_seconds >= MaxDurationSeconds

TooLong(duration_seconds) == duration_seconds > MaxDurationSeconds

ValidateTimeout(experiment, system_analysis) ==
    LET params == ParametersOf(experiment)
    IN  IF "duration" \notin DOMAIN params
        THEN FailedWith(<<"No duration specified">>,
                        "Specify a maximum duration for the experiment")
        ELSE LET duration == params.duration
             IN  IF duration.k \notin {"num", "str"}
                 THEN Failed(<<"Invalid duration format">>)
                 ELSE IF duration.k = "str"
                 THEN IF ~MatchDuration(duration)
                      THEN FailedWith(<<"Invalid duration format">>,
                                      "Use format: <number><unit> (e.g., 5m, 1h)")
                      ELSE IF TooLong(duration.n * DurationMultipliers[duration.s])
                      THEN FailedWith(<<"Duration too long">>,
                                      "Limit experiment duration to 1 hour")
                      ELSE Passed
                 ELSE Passed

(***************************************************************************)
(* The category checks (_validate_fallback, _validate_retry,               *)
(* _validate_resource_limits, _validate_autoscaling,                       *)
(* _validate_circuit_breaker, _validate_cache) share one loop: the check   *)
(* fails at the first component named target that has none of the keys,    *)
(* and passes when the loops end.                                          *)
(***************************************************************************)
RECURSIVE RequireInDoc(_, _, _, _)
RequireInDoc(comps, target, keys, i) ==
    IF i > Len(comps) THEN "ok"
    ELSE IF "name" \notin DOMAIN comps[i] THEN "KeyError"
    ELSE IF target = Word(comps[i].name) /\ PropertiesOf(comps[i]) \cap keys = {}
         THEN "missing"
    ELSE RequireInDoc(comps, target, keys, i + 1)

RECURSIVE RequireInDocs(_, _, _, _)
RequireInDocs(docs, target, keys, i) ==
    IF i > Len(docs) THEN Ok(TRUE)
    ELSE LET has == HasComponents(docs[i])
         IN  IF has.raised THEN has
             ELSE IF ~has.value THEN RequireInDocs(docs, target, keys, i + 1)
             ELSE LET r == RequireInDoc(docs[i].d.components, target, keys, 1)
                  IN  CASE r = "KeyError" -> Raise("KeyError")
                        [] r = "missing" -> Ok(FALSE)
                        [] OTHER -> RequireInDocs(docs, target, keys, i + 1)

\* what a category check returns once its loops are over
RequireOutcome(r, target, details, recommendation) ==
    IF r.raised THEN r
    ELSE IF r.value THEN Passed
    ELSE FailedWith(<<details, target.s>>, recommendation)

RequireOf(target, system_analysis, keys, details, recommendation) ==
    IF Falsy(target) THEN Failed(<<"No target component specified">>)
    ELSE RequireOutcome(RequireInDocs(Values(system_analysis), target, keys, 1),
                        target, details, recommendation)

RequireProperty(experiment, system_analysis, keys, details, recommendation) ==
    RequireOf(TargetOf(experiment), system_analysis, keys, details, recommendation)

ValidateFallback(experiment, system_analysis) ==
    RequireProperty(experiment, system_analysis, {"fallback", "failover", "backup"},
                    "No fallback mechanism found for ", "Implement fallback mechanism")

ValidateRetry(experiment, system_analysis) ==
    RequireProperty(experiment, system_analysis, {"retry"},
                    "No retry mechanism found for ", "Implement retry mechanism")

ValidateResourceLimits(experiment, system_analysis) ==
    RequireProperty(experiment, system_analysis,
                    {"resource_limits", "cpu_limit", "memory_limit"},
                    "No resource limits found for ", "Set resource limits")

ValidateAutoscaling(experiment, system_analysis) ==
    RequireProperty(experiment, system_analysis, {"autoscaling"},
                    "No autoscaling found for ", "Configure autoscaling")

ValidateCircuitBreaker(experiment, system_analysis) ==
    RequireProperty(experiment, system_analysis, {"circuit_breaker"},
                    "No circuit breaker found for ", "Implement circuit breaker")

ValidateCache(experiment, system_analysis) ==
    RequireProperty(experiment, system_analysis, {"cache", "caching", "redis"},
                    "No caching mechanism found for ", "Implement caching")

\* rule["validator"](experiment, system_analysis)
Validate(validator, experiment, system_analysis) ==
    CASE validator = "_validate_rollback" -> ValidateRollback(experiment, system_analysis)
      [] validator = "_validate_monitoring" ->
            ValidateMonitoring(experiment, system_analysis)
      [] validator = "_validate_timeout" -> ValidateTimeout(experiment, system_analysis)
      [] validator = "_validate_fallback" -> ValidateFallback(experiment, system_analysis)
      [] validator = "_validate_retry" -> ValidateRetry(experiment, system_analysis)
      [] validator = "_validate_resource_limits" ->
            ValidateResourceLimits(experiment, system_analysis)
      [] validator = "_validate_autoscaling" ->
            ValidateAutoscaling(experiment, system_analysis)
      [] validator = "_validate_circuit_breaker" ->
            ValidateCircuitBreaker(experiment, system_analysis)
      [] validator = "_validate_cache" -> ValidateCache(experiment, system_analysis)

(***************************************************************************)
(* SafetyValidator._apply_rules                                            *)
(* lists holds the three lists the caller passes in.                       *)
(***************************************************************************)
Entry(rule, description, details) ==
    [rule |-> rule, description |-> description, details |-> details]

OnlyCritical(severity) == severity = CRITICAL

\* rule["severity"] in [RiskLevel.HIGH, RiskLevel.CRITICAL]
IsViolationSeverity(severity) == severity \in {HIGH, CRITICAL}

DropRuleError(lists, rule, error) == lists

\* except Exception as e: the error becomes a violation of the rule
RecordRuleError(lists, rule, error) ==
    [lists EXCEPT !.violations =
        Append(@, Entry(rule.name, "Error validating rule", <<error>>))]

\* every failed rule taken for a warning
ClassifyAsWarning(lists, rule, entry) ==
    [lists EXCEPT !.warnings = Append(@, entry)]

\* the failed rule goes to the violations or to the warnings
Classify(lists, rule, entry) ==
    IF IsViolationSeverity(rule.severity)
    THEN [lists EXCEPT !.violations = Append(@, entry)]
    ELSE [lists EXCEPT !.warnings = Append(@, entry)]

\* if "recommendation" in result
Recommend(classified, rule, result) ==
    IF "recommendation" \in DOMAIN result
    THEN [classified EXCEPT !.recommendations =
             Append(@, [rule |-> rule.name, recommendation |-> result.recommendation])]
    ELSE classified

\* the try block of the loop body, result being what the validator gave
RecordResult(lists, rule, result) ==
    IF result.raised THEN RecordRuleError(lists, rule, result.error)
    ELSE IF result.value.passed THEN lists
    ELSE Recommend(Classify(lists, rule,
                            Entry(rule.name, rule.description, result.value.details)),
                   rule, result.value)

ApplyRule(lists, rule, experiment, system_analysis) ==
    RecordResult(lists, rule, Validate(rule.validator, experiment, system_analysis))

RECURSIVE RuleFold(_, _, _, _, _)
RuleFold(lists, rules, experiment, system_analysis, i) ==
    IF i > Len(rules) THEN lists
    ELSE RuleFold(ApplyRule(lists, rules[i], experiment, system_analysis),
                  rules, experiment, system_analysis, i + 1)

\* self.safety_rules.get(rule_type, [])
RulesOf(rule_type) ==
    IF rule_type \in DOMAIN SafetyRules THEN SafetyRules[rule_type] ELSE <<>>

ApplyRules(rule_type, experiment, system_analysis, lists) ==
    RuleFold(lists, RulesOf(rule_type), experiment, system_analysis, 1)

(***************************************************************************)
(* SafetyValidator._determine_experiment_type                              *)
(* NoType stands for None; the caller only tests the result for truth.     *)
(***************************************************************************)
NoType == ""

\* word.lower()
Lower(word) ==
    CASE word = "Network_Failure" -> "network_failure"
      [] word = "RESOURCE" -> "resource"
      [] word = "Dependency" -> "dependency"
      [] OTHER -> word

\* needle in experiment.get("name", "").lower()
NameContains(experiment, needle) ==
    /\ "name" \in DOMAIN experiment
    /\ \E i \in 1..Len(experiment.name) : Lower(experiment.name[i]) = needle

DetermineExperimentType(experiment) ==
    IF "type" \in DOMAIN experiment THEN experiment.type
    ELSE IF NameContains(experiment, "network_failure") THEN "network"
    ELSE IF NameContains(experiment, "resource") THEN "resource"
    ELSE IF NameContains(experiment, "dependency") THEN "dependency"
    ELSE NoType

(***************************************************************************)
(* SafetyValidator._calculate_risk_level                                   *)
(***************************************************************************)
MaxQuietWarnings == 2

CalculateRiskLevelByCount(violations, warnings) ==
    IF Len(violations) > 1 THEN CRITICAL
    ELSE IF Len(violations) > 0 THEN HIGH
    ELSE IF Len(warnings) > MaxQuietWarnings THEN MEDIUM
    ELSE LOW

CalculateRiskLevel(violations, warnings) ==
    IF \E i \in 1..Len(violations) : violations[i].rule = "has_rollback" THEN CRITICAL
    ELSE IF Len(violations) > 0 THEN HIGH
    ELSE IF Len(warnings) > MaxQuietWarnings THEN MEDIUM
    ELSE LOW

(***************************************************************************)
(* SafetyValidator.validate_experiment                                     *)
(***************************************************************************)
NoEntries == [violations |-> <<>>, warnings |-> <<>>, recommendations |-> <<>>]

\* the dict validate_experiment returns for the lists it has filled
ValidationResult(lists) ==
    [is_safe |-> Len(lists.violations) = 0,
     risk_level |-> CalculateRiskLevel(lists.violations, lists.warnings),
     violations |-> lists.violations,
     warnings |-> lists.warnings,
     recommendations |-> lists.recommendations]

\* if experiment_type: self._apply_rules(experiment_type, ...)
ApplyTypeRules(experiment_type, experiment, system_analysis, lists) ==
    IF experiment_type # NoType
    THEN ApplyRules(experiment_type, experiment, system_analysis, lists)
    ELSE lists

ValidateExperiment(experiment, system_analysis) ==
    ValidationResult(
        ApplyTypeRules(DetermineExperimentType(experiment), experiment, system_analysis,
                       ApplyRules("general", experiment, system_analysis, NoEntries)))

(***************************************************************************)
(* ExperimentPredictor (experiment_predictor.py).                          *)
(*                                                                         *)
(* scaler is "unfitted" or "fitted"; classifier records whether the forest *)
(* was fitted and classes_, the sorted labels it was fitted on.  What the  *)
(* forest learned is not modelled: the probability it gives to the second  *)
(* class and its feature importances are chosen by the caller of           *)
(* PredictOutcome among ClassProbabilities and Importances.                *)
(***************************************************************************)
FeatureNames == <<"latency_ms", "duration_s", "component_risk",
                  "affected_count", "critical_count", "time_of_day">>

\* ExperimentPredictor.__init__
NewScaler == "unfitted"
NewClassifier == [fitted |-> FALSE, classes |-> <<>>, labels |-> <<>>,
                  trained_on |-> "nothing"]

\* the feature matrices of train_model and of predict_outcome: the rows as
\* extracted, the rows after the scaler's transform, the row of zeros
RawFeatures == "X"
ScaledFeatures == "scaler.transform(X)"
DummyFeatures == "dummy_X"

\* predict_outcome asks the classifier about features_scaled
QueriedOn == ScaledFeatures

\* classes_ after fit(X, y)
Classes(y) ==
    LET labels == SeqToSet(y)
    IN  IF labels = {0, 1} THEN <<0, 1>>
        ELSE IF labels = {1} THEN <<1>>
        ELSE <<0>>

\* self.classifier.fit(matrix, y)
Fit(matrix, y) ==
    [fitted |-> TRUE, classes |-> Classes(y), labels |-> y, trained_on |-> matrix]

\* ExperimentPredictor._prepare_training_data: the labels y, one per row of
\* X; int(exp.duration.rstrip("s")) raises a ValueError the loop lets through
RECURSIVE PrepareTrainingData(_, _, _)
PrepareTrainingData(exps, i, y) ==
    IF i > Len(exps) THEN Ok(y)
    ELSE LET duration_secs == ParseSeconds(exps[i].duration)
             outcome == IF IsSuccessful(exps[i]) THEN 1 ELSE 0
         IN  IF duration_secs.raised THEN duration_secs
             ELSE PrepareTrainingData(exps, i + 1, Append(y, outcome))

\* the label of the dummy sample
DummyLabels == <<0>>

\* ExperimentPredictor.train_model: the fitted classifier, or the error
TrainModel(exps) ==
    LET y == PrepareTrainingData(exps, 1, <<>>)
    IN  IF y.raised THEN y
        ELSE IF Len(y.value) > 0 THEN Ok(Fit(RawFeatures, y.value))
        ELSE Ok(Fit(DummyFeatures, DummyLabels))

\* float(value)
ToFloat(value) ==
    IF value.k = "num" THEN Ok(RInt(value.n))
    ELSE IF value.k = "str" /\ value.n >= 0 /\ value.s = "" THEN Ok(RInt(value.n))
    ELSE Raise("ValueError")

\* float(duration.rstrip("s"))
FloatSeconds(duration) ==
    IF duration.k # "str" THEN Raise("AttributeError")
    ELSE IF duration.n >= 0 /\ duration.s \in {"s", ""} THEN Ok(RInt(duration.n))
    ELSE Raise("ValueError")

\* params.get(key, "")
StrParam(params, key) ==
    IF key \in DOMAIN params THEN params[key] ELSE Word("")

\* ExperimentPredictor._extract_features, up to the duration feature
LeadingFeatures(experiment) ==
    IF "parameters" \notin DOMAIN experiment THEN Raise("KeyError")
    ELSE LET params == experiment.parameters
             latency == IF "latency_ms" \in DOMAIN params
                        THEN ToFloat(params.latency_ms) ELSE Ok(RInt(0))
             duration == FloatSeconds(DurationField(experiment))
         IN  IF latency.raised THEN latency
             ELSE IF duration.raised THEN duration
             ELSE Ok(<<latency.value, duration.value>>)

BoolFeature(b) == IF b THEN RInt(1) ELSE RInt(0)

\* ExperimentPredictor._extract_features, from the component risk on
ExtractFeatures(leading, experiment, risk_profile, relationships) ==
    LET failure_type == StrParam(experiment.parameters, "failure_type")
    IN  leading \o <<risk_profile.risk_score,
                     BoolFeature(failure_type = Word("latency")),
                     BoolFeature(failure_type = Word("error")),
                     RInt(Cardinality(DOMAIN relationships))>>

\* sorted(..., key=importance, reverse=True): stable, larger importance first
RECURSIVE InsertByImportance(_, _, _)
InsertByImportance(sorted, row, i) ==
    IF i > Len(sorted) THEN Append(sorted, row)
    ELSE IF RLt(sorted[i].importance, row.importance)
         THEN SubSeq(sorted, 1, i - 1) \o <<row>> \o SubSeq(sorted, i, Len(sorted))
    ELSE InsertByImportance(sorted, row, i + 1)

RECURSIVE SortByImportance(_, _, _)
SortByImportance(rows, i, sorted) ==
    IF i > Len(rows) THEN sorted
    ELSE SortByImportance(rows, i + 1, InsertByImportance(sorted, rows[i], 1))

\* ExperimentPredictor._analyze_feature_importance
AnalyzeFeatureImportance(features, importances) ==
    SortByImportance([i \in 1..Len(FeatureNames) |->
                         [feature |-> FeatureNames[i], importance |-> importances[i],
                          value |-> features[i]]],
                     1, <<>>)

\* predict_proba(...)[0]: one entry per class of classes_
Probabilities(classifier_, second) ==
    IF Len(classifier_.classes) = 2 THEN <<RSub(RInt(1), second), second>>
    ELSE <<RInt(1)>>

\* predict(...)[0]: the first class of largest probability
Predicted(classifier_, probabilities) ==
    IF Len(probabilities) = 2 /\ RLt(probabilities[1], probabilities[2])
    THEN classifier_.classes[2] ELSE classifier_.classes[1]

\* max(probabilities)
Confidence(probabilities) ==
    IF Len(probabilities) = 2 /\ RLt(probabilities[1], probabilities[2])
    THEN probabilities[2] ELSE probabilities[1]

\* ExperimentPredictor.predict_outcome, features being extracted
PredictOutcome(scaler_, classifier_, features, second, importances) ==
    IF scaler_ # "fitted" \/ ~classifier_.fitted THEN Raise("NotFittedError")
    ELSE LET probabilities == Probabilities(classifier_, second)
         IN  IF Len(probabilities) < 2 THEN Raise("IndexError")
             ELSE Ok([predicted_outcome |-> Predicted(classifier_, probabilities),
                      success_probability |-> probabilities[2],
                      confidence |-> Confidence(probabilities),
                      contributing_factors |->
                          AnalyzeFeatureImportance(features, importances)])

(***************************************************************************)
(* ExperimentPredictor.suggest_improvements, the prediction being made     *)
(***************************************************************************)
LowProbability == Frac(7, 10)
SafeLatency == Num(2000)
ShortSeconds == 30

LatencySuggestion(latency_ms) ==
    [type |-> "parameter_adjustment", parameter |-> "latency_ms",
     current_value |-> latency_ms, suggested_value |-> PyMin(latency_ms, SafeLatency),
     reason |-> "High latency values increase failure risk"]

DurationSuggestion(duration) ==
    [type |-> "duration_adjustment", current_duration |-> duration,
     suggested_duration |-> DurStr(ShortSeconds, "s"),
     reason |-> "Long experiment duration increases system impact"]

MonitoringSuggestion ==
    [type |-> "monitoring_adjustment",
     suggestion |-> "Add detailed monitoring for the target component",
     reason |-> "Improved monitoring helps catch issues early"]

\* experiment["duration"].endswith("s")
EndsWithS(duration) == duration.k = "str" /\ duration.s = "s"

KeepSuggestions(suggestions) == suggestions

\* if not suggestions: suggestions.append(...)
EnsureSuggestion(suggestions) ==
    IF suggestions = <<>> THEN <<MonitoringSuggestion>> ELSE suggestions

SuggestImprovements(experiment, current_prediction) ==
    IF current_prediction.raised THEN current_prediction
    ELSE LET low == RLt(current_prediction.value.success_probability, LowProbability)
             for_latency ==
                IF low /\ "latency_ms" \in DOMAIN experiment.parameters
                THEN <<LatencySuggestion(experiment.parameters.latency_ms)>>
                ELSE <<>>
             for_duration ==
                IF low /\ "duration" \in DOMAIN experiment
                   /\ EndsWithS(experiment.duration)
                   /\ experiment.duration.n > ShortSeconds
                THEN <<DurationSuggestion(experiment.duration)>>
                ELSE <<>>
         IN  Ok(EnsureSuggestion(for_latency \o for_duration))

(***************************************************************************)
(* ExperimentPredictor.analyze_trends                                      *)
(***************************************************************************)
Hours == 0..23

\* "success_rate": data["success"] / data["total"] if data["total"] > 0 else 0
RateOf(success, total) == IF total > 0 THEN Frac(success, total) ELSE RInt(0)

\* ExperimentPredictor._analyze_time_patterns
AnalyzeTimePatterns(exps) ==
    [hour \in Hours |->
        LET at == SelectSeq(exps, LAMBDA exp : exp.timestamp.hour = hour)
        IN  [success_rate |-> RateOf(Len(SelectSeq(at, IsSuccessful)), Len(at)),
             total_experiments |-> Len(at)]]

\* ExperimentPredictor._analyze_component_patterns
AnalyzeComponentPatterns(exps) ==
    [component \in {exps[i].target_component : i \in 1..Len(exps)} |->
        LET records == ExperimentsOf(exps, component)
        IN  [success_rate |-> RateOf(Len(SelectSeq(records, IsSuccessful)), Len(records)),
             total_experiments |-> Len(records)]]

\* the numeric values a parameter took in a list of records, in their order
RECURSIVE NumericValues(_, _, _)
NumericValues(exps, param, i) ==
    IF i = 0 THEN <<>>
    ELSE LET ps == exps[i].parameters
             before == NumericValues(exps, param, i - 1)
         IN  IF param \in DOMAIN ps /\ IsNumeric(ps[param])
             THEN Append(before, ps[param]) ELSE before

RECURSIVE MinOf(_)
MinOf(values) ==
    IF Len(values) = 1 THEN values[1] ELSE PyMin(MinOf(Tail(values)), values[1])

RECURSIVE MaxOf(_)
MaxOf(values) ==
    IF Len(values) = 1 THEN values[1] ELSE PyMax(MaxOf(Tail(values)), values[1])

\* {"min": min(data) if data else None, "max": ..., "mean": np.mean(data) ...}
TrendRange(values) ==
    IF values = <<>> THEN [min |-> None, max |-> None, mean |-> None]
    ELSE [min |-> MinOf(values), max |-> MaxOf(values),
          mean |-> RMean([i \in 1..Len(values) |-> RInt(values[i].n)])]

\* ExperimentPredictor._analyze_parameter_trends
AnalyzeParameterTrends(exps) ==
    LET numeric == {param \in UNION {DOMAIN exps[i].parameters : i \in 1..Len(exps)} :
                       NumericValues(exps, param, Len(exps)) # <<>>}
        successful == SelectSeq(exps, IsSuccessful)
        failed == SelectSeq(exps, LAMBDA exp : ~IsSuccessful(exp))
    IN  [param \in numeric |->
            [successful_range |->
                 TrendRange(NumericValues(successful, param, Len(successful))),
             failed_range |-> TrendRange(NumericValues(failed, param, Len(failed)))]]

\* ExperimentPredictor._calculate_overall_success_rate
CalculateOverallSuccessRate(exps) ==
    IF exps = <<>> THEN RInt(0)
    ELSE Frac(Len(SelectSeq(exps, IsSuccessful)), Len(exps))

AnalyzeTrends(exps) ==
    IF exps = <<>> THEN EmptyDict
    ELSE [time_patterns |-> AnalyzeTimePatterns(exps),
          component_patterns |-> AnalyzeComponentPatterns(exps),
          parameter_trends |-> AnalyzeParameterTrends(exps),
          overall_success_rate |-> CalculateOverallSuccessRate(exps)]

(***************************************************************************)
(* Inputs of the exploration: the records of the test fixture and others   *)
(* around them, the candidates of the tests and of the spec scenarios.     *)
(***************************************************************************)
UserService == "user-service"
AuthService == "auth-service"
OrderService == "order-service"
Db == "db"
CacheX == "cache-x"

Exp1 == ExperimentMemory("network_failure", UserService,
          [failure_type |-> Word("latency"), latency_ms |-> Num(1000),
           duration |-> DurStr(30, "s")],
          SUCCESS, <<UserService, AuthService>>, DurStr(30, "s"), 9)
Exp2 == ExperimentMemory("network_failure", UserService,
          [failure_type |-> Word("latency"), latency_ms |-> Num(5000),
           duration |-> DurStr(60, "s")],
          FAILURE, <<UserService, AuthService, OrderService>>, DurStr(60, "s"), 9)
Exp3 == ExperimentMemory("network_failure", UserService,
          [latency_ms |-> Num(0)],
          PARTIAL_SUCCESS, <<>>, DurStr(10, "s"), 14)
Exp4 == ExperimentMemory("network_failure", UserService,
          [failure_type |-> Word("latency"), latency_ms |-> Num(3000)],
          SUCCESS, <<AuthService>>, DurStr(45, "s"), 23)
Exp5 == ExperimentMemory("resource_exhaustion", Db,
          [utilization |-> Num(80)],
          SUCCESS, <<Db>>, DurStr(2, "m"), 0)
Exp6 == ExperimentMemory("resource_exhaustion", Db,
          [utilization |-> Num(95)],
          UNSAFE, <<Db, UserService>>, DurStr(30, "s"), 9)
Exp7 == ExperimentMemory("network_failure", Db,
          [latency_ms |-> Num(1000)],
          INTERRUPTED, <<>>, DurStr(30, "s"), 14)

Memories == {Exp1, Exp2, Exp3, Exp4, Exp5, Exp6, Exp7}

\* the candidate of the duration scenario of the spec
CandSpecDuration ==
    [type |-> "network_failure",
     parameters |-> [target_component |-> Word(UserService),
                     duration |-> DurStr(90, "s")]]
\* test_duration_optimization
CandTestDuration ==
    [type |-> "network_failure",
     parameters |-> [target_component |-> Word(UserService),
                     failure_type |-> Word("latency"), latency_ms |-> Num(2000)],
     duration |-> DurStr(90, "s")]
\* test_parameter_adjustment
CandTestAdjust ==
    [type |-> "network_failure",
     parameters |-> [target_component |-> Word(UserService),
                     failure_type |-> Word("latency"), latency_ms |-> Num(6000)]]
\* test_experiment_planner_risk_calculation
CandTestRisk ==
    [type |-> "network_failure",
     parameters |-> [target_component |-> Word(UserService),
                     failure_type |-> Word("latency"), latency_ms |-> Num(3000),
                     duration |-> DurStr(40, "s")],
     affected_components |-> <<UserService, AuthService>>]
CandOtherType ==
    [type |-> "resource_exhaustion",
     parameters |-> [target_component |-> Word(UserService), latency_ms |-> Num(6000)],
     duration |-> DurStr(20, "s")]
CandMinutes ==
    [type |-> "resource_exhaustion",
     parameters |-> [target_component |-> Word(Db), utilization |-> Num(99)],
     duration |-> DurStr(2, "m"),
     affected_components |-> <<>>]
CandNumericDuration ==
    [type |-> "network_failure",
     parameters |-> [target_component |-> Word(UserService),
                     failure_type |-> Word("latency"), latency_ms |-> Num(500),
                     duration |-> Num(45)]]
CandUnknown ==
    [type |-> "network_failure",
     parameters |-> [target_component |-> Word(CacheX), latency_ms |-> Num(100)],
     duration |-> DurStr(10, "s"),
     safety_checks |-> <<BasicChecks[1]>>,
     monitoring |-> [dashboard |-> "main"]]
CandSmall ==
    [type |-> "network_failure",
     parameters |-> [target_component |-> Word(UserService), latency_ms |-> Num(7)],
     duration |-> DurStr(25, "s"),
     affected_components |-> <<AuthService, OrderService>>]
CandDb ==
    [type |-> "resource_exhaustion",
     parameters |-> [target_component |-> Word(Db), utilization |-> Num(85)],
     duration |-> DurStr(400, "s"),
     affected_components |-> <<Db>>]

Candidates == {CandSpecDuration, CandTestDuration, CandTestAdjust, CandTestRisk,
               CandOtherType, CandMinutes, CandNumericDuration, CandUnknown,
               CandSmall, CandDb}

\* the system_analysis fixture of the tests, and one with typed components
AnalysisFixture ==
    [components |-> <<[name |-> UserService, type |-> "service"],
                      [name |-> AuthService, type |-> "service"]>>,
     critical_components |-> <<UserService>>]
AnalysisStores ==
    [components |-> <<[name |-> Db, type |-> "database"],
                      [name |-> CacheX, type |-> "cache"]>>]

Analyses == {AnalysisFixture, AnalysisStores}

Thresholds == {Frac(3, 10), DefaultThreshold, RInt(1)}

Queried == {UserService, Db, CacheX}

(***************************************************************************)
(* Inputs of the validator: the experiments and the system_analysis of     *)
(* test_safety_validation, and others around them.                         *)
(***************************************************************************)
MonitoredService(name) ==
    [name |-> name, type |-> "service",
     properties |-> {"language", "framework", "monitoring", "circuit_breaker", "retry"}]
BareService(name) ==
    [name |-> name, type |-> "service", properties |-> {"language", "fallback"}]
Nameless == [type |-> "service", properties |-> {"monitoring"}]

FixtureComponents == <<MonitoredService(UserService), MonitoredService(AuthService)>>
FixtureRelationships == <<[from |-> UserService, to |-> AuthService, type |-> "http"]>>

\* the fixture as the test passes it: components at the top level
FlatAnalysis ==
    <<Item("components", ListObj(FixtureComponents)),
      Item("relationships", ListObj(FixtureRelationships))>>
\* the fixture as the analysis of one document
DocAnalysis ==
    <<Item("architecture.md", DictObj([components |-> FixtureComponents,
                                       relationships |-> FixtureRelationships]))>>
TwoDocAnalysis ==
    <<Item("notes.md", DictObj([summary |-> "none"])),
      Item("services.md", DictObj([components |-> <<BareService(AuthService),
                                                    [name |-> UserService]>>]))>>
CountedAnalysis ==
    <<Item("architecture.md", DictObj([components |-> FixtureComponents])),
      Item("documents", IntObj(1))>>
NamelessAnalysis ==
    <<Item("architecture.md", DictObj([components |-> <<Nameless>> \o FixtureComponents]))>>
EmptyAnalysis == <<>>

ValidatorAnalyses == {FlatAnalysis, DocAnalysis, TwoDocAnalysis, CountedAnalysis,
                      NamelessAnalysis, EmptyAnalysis}

\* test_safety_validation: the safe and the unsafe experiment
SafeExperiment ==
    [name |-> <<"auth", "service", "latency">>,
     type |-> "latency_injection",
     parameters |-> [target_component |-> Word(AuthService), latency_ms |-> Num(1000),
                     duration |-> DurStr(30, "s")],
     rollback_procedure |-> DictObj([steps |-> <<"Remove latency injection">>])]
UnsafeExperiment ==
    [name |-> <<"auth", "service", "crash">>,
     type |-> "process_failure",
     parameters |-> [target_component |-> Word(AuthService),
                     failure_type |-> Word("crash"), duration |-> DurStr(1, "h")]]
NoStepsExperiment ==
    [SafeExperiment EXCEPT !.rollback_procedure = DictObj([owner |-> "sre"])]
ListRollbackExperiment ==
    [SafeExperiment EXCEPT !.rollback_procedure = ListObj(<<"Remove latency injection">>)]
NetworkExperiment ==
    [SafeExperiment EXCEPT !.type = "network"]
\* the type as the planner and the store write it
NetworkFailureExperiment ==
    [SafeExperiment EXCEPT !.type = "network_failure"]
\* the type names the general group, which is then applied a second time
GeneralTypeExperiment ==
    [UnsafeExperiment EXCEPT !.type = "general"]
DependencyExperiment ==
    [name |-> <<"cart", "Dependency", "outage">>,
     parameters |-> [target_component |-> Word(UserService), duration |-> DurStr(5, "m")],
     rollback_procedure |-> DictObj([steps |-> <<"Restore dependency">>])]
ResourceExperiment ==
    [name |-> <<"RESOURCE", "squeeze">>,
     parameters |-> [target_component |-> Word(AuthService), duration |-> DurStr(2, "h")],
     rollback_procedure |-> DictObj([steps |-> <<"Release resources">>])]
NoTargetExperiment ==
    [name |-> <<"Network_Failure", "drill">>,
     parameters |-> [duration |-> Word("soon")],
     rollback_procedure |-> DictObj([steps |-> <<"Heal network">>])]
NoParametersExperiment ==
    [name |-> <<"dry", "run">>]
EmptyTargetExperiment ==
    [type |-> "resource",
     parameters |-> [target_component |-> Word(""), duration |-> DurStr(10, "s")]]

\* values of parameters.duration: "30s", "3600s", "3601s", "60m", "61m", "1h",
\* "2h", "0s", "30", "2d", "soon", 7200, float('inf'), None
Durations ==
    {DurStr(30, "s"), DurStr(3600, "s"), DurStr(3601, "s"), DurStr(60, "m"),
     DurStr(61, "m"), DurStr(1, "h"), DurStr(2, "h"), DurStr(0, "s"), DurStr(30, ""),
     DurStr(2, "d"), Word("soon"), Num(7200), PosInf, None}

TimedExperiment(duration) == [SafeExperiment EXCEPT !.parameters.duration = duration]

ValidatorExperiments ==
    {UnsafeExperiment, NoStepsExperiment, ListRollbackExperiment, NetworkExperiment,
     NetworkFailureExperiment, GeneralTypeExperiment, DependencyExperiment, ResourceExperiment, NoTargetExperiment,
     NoParametersExperiment, EmptyTargetExperiment}
        \cup {TimedExperiment(duration) : duration \in Durations}

\* lists of violations and of warnings for _calculate_risk_level
EntryOf(rule) == Entry(rule, "description", <<"details">>)
ViolationLists ==
    {<<>>, <<EntryOf("has_timeout")>>, <<EntryOf("has_monitoring"), EntryOf("has_rollback")>>}
WarningLists ==
    {<<>>, <<EntryOf("has_retry"), EntryOf("has_cache")>>,
     <<EntryOf("has_retry"), EntryOf("has_cache"), EntryOf("has_autoscaling")>>}

(***************************************************************************)
(* Inputs of the predictor.                                                *)
(***************************************************************************)
TrainingMemories == {Exp1, Exp2, Exp5}

PredictorCandidates == {CandTestDuration, CandTestAdjust, CandUnknown, CandMinutes,
                        CandSpecDuration}

\* probabilities the forest may give to its second class
ClassProbabilities == {Frac(3, 10), LowProbability, RInt(1)}

\* feature_importances_ the forest may have
Importances ==
    {<<RInt(0), RInt(0), RInt(0), RInt(0), RInt(0), RInt(0)>>,
     <<Frac(1, 4), Frac(1, 2), Frac(1, 4), RInt(0), RInt(0), RInt(0)>>}

(***************************************************************************)
(* The store after construction (MemoryStore.__init__); no call is under   *)
(* way.                                                                    *)
(***************************************************************************)
NoCall == [op |-> "none"]

Init ==
    /\ experiments = <<>>
    /\ component_knowledge = EmptyDict
    /\ relationship_knowledge = EmptyDict
    /\ risk_profiles = EmptyDict
    /\ scaler = NewScaler
    /\ classifier = NewClassifier
    /\ pc = "idle"
    /\ call = NoCall

(***************************************************************************)
(* MemoryStore.add_experiment                                              *)
(***************************************************************************)
AddExperiment(memory) ==
    /\ pc = "idle"
    /\ Len(experiments) < MaxHist
    /\ LET exps == AppendMemory(experiments, memory)
           knowledge == UpdateComponentKnowledge(component_knowledge, memory)
       IN  /\ experiments' = exps
           /\ component_knowledge' = knowledge
           /\ relationship_knowledge' = UpdateRelationships(relationship_knowledge, memory)
           /\ risk_profiles' = BuildRiskProfile(exps, knowledge, risk_profiles,
                                                memory.target_component)
    /\ pc' = "returned"
    /\ UNCHANGED <<scaler, classifier>>
    /\ call' = [op |-> "add_experiment", memory |-> memory]

SimilarCall(experiment, threshold) ==
    /\ pc = "idle"
    /\ pc' = "returned"
    /\ call' = [op |-> "get_similar_experiments", experiment |-> experiment,
                threshold |-> threshold,
                result |-> GetSimilarExperiments(experiments, experiment, threshold)]
    /\ UNCHANGED <<experiments, component_knowledge, relationship_knowledge,
                   risk_profiles, scaler, classifier>>

RiskProfileCall(component) ==
    /\ pc = "idle"
    /\ LET profiles == GetComponentRiskProfile(experiments, component_knowledge,
                                               risk_profiles, component)
       IN  /\ risk_profiles' = profiles
           /\ call' = [op |-> "get_component_risk_profile", component |-> component,
                       result |-> profiles[component]]
    /\ pc' = "returned"
    /\ UNCHANGED <<experiments, component_knowledge, relationship_knowledge,
                   scaler, classifier>>

RelationshipsCall(component) ==
    /\ pc = "idle"
    /\ pc' = "returned"
    /\ call' = [op |-> "get_component_relationships", component |-> component,
                result |-> GetComponentRelationships(relationship_knowledge, component)]
    /\ UNCHANGED <<experiments, component_knowledge, relationship_knowledge,
                   risk_profiles, scaler, classifier>>

EnhanceCall(experiment, system_analysis) ==
    /\ pc = "idle"
    /\ LET target == experiment.parameters.target_component.s
           profiles == GetComponentRiskProfile(experiments, component_knowledge,
                                               risk_profiles, target)
       IN  /\ risk_profiles' = profiles
           /\ call' = [op |-> "enhance_experiment", experiment |-> experiment,
                       system_analysis |-> system_analysis,
                       result |-> EnhanceExperiment(experiments, profiles[target],
                                                    experiment, system_analysis)]
    /\ pc' = "returned"
    /\ UNCHANGED <<experiments, component_knowledge, relationship_knowledge,
                   scaler, classifier>>

RiskCall(experiment, system_analysis) ==
    /\ pc = "idle"
    /\ LET target == experiment.parameters.target_component.s
           profiles == GetComponentRiskProfile(experiments, component_knowledge,
                                               risk_profiles, target)
       IN  /\ risk_profiles' = profiles
           /\ call' = [op |-> "calculate_experiment_risk", experiment |-> experiment,
                       system_analysis |-> system_analysis,
                       result |-> CalculateExperimentRisk(profiles[target],
                                     GetComponentRelationships(relationship_knowledge,
                                                               target),
                                     experiment, system_analysis)]
    /\ pc' = "returned"
    /\ UNCHANGED <<experiments, component_knowledge, relationship_knowledge,
                   scaler, classifier>>

(***************************************************************************)
(* SafetyValidator.validate_experiment: the validator keeps no state       *)
(***************************************************************************)
ValidateCall(experiment, system_analysis) ==
    /\ pc = "idle"
    /\ pc' = "returned"
    /\ call' = [op |-> "validate_experiment", experiment |-> experiment,
                system_analysis |-> system_analysis,
                result |-> ValidateExperiment(experiment, system_analysis)]
    /\ UNCHANGED <<experiments, component_knowledge, relationship_knowledge,
                   risk_profiles, scaler, classifier>>

\* SafetyValidator._calculate_risk_level on lists of its caller's making
RiskLevelCall(violations, warnings) ==
    /\ pc = "idle"
    /\ pc' = "returned"
    /\ call' = [op |-> "_calculate_risk_level", violations |-> violations,
                warnings |-> warnings,
                result |-> CalculateRiskLevel(violations, warnings)]
    /\ UNCHANGED <<experiments, component_knowledge, relationship_knowledge,
                   risk_profiles, scaler, classifier>>

(***************************************************************************)
(* ExperimentPredictor.train_model                                         *)
(***************************************************************************)
TrainCall ==
    /\ pc = "idle"
    /\ LET trained == TrainModel(experiments)
       IN  /\ scaler' = IF trained.raised THEN scaler ELSE "fitted"
           /\ classifier' = IF trained.raised THEN classifier ELSE trained.value
           /\ call' = [op |-> "train_model", raised |-> trained.raised]
    /\ pc' = "returned"
    /\ UNCHANGED <<experiments, component_knowledge, relationship_knowledge,
                   risk_profiles>>

\* predict_outcome as both callers below run it: the profile of the target
\* is looked up, and cached, once the leading features are extracted
Prediction(experiment, profiles, second, importances) ==
    LET leading == LeadingFeatures(experiment)
        target == StrParam(experiment.parameters, "target_component").s
    IN  IF leading.raised THEN leading
        ELSE PredictOutcome(scaler, classifier,
                            ExtractFeatures(leading.value, experiment, profiles[target],
                                GetComponentRelationships(relationship_knowledge,
                                                          target)),
                            second, importances)

ProfilesAfterPrediction(experiment) ==
    IF LeadingFeatures(experiment).raised THEN risk_profiles
    ELSE GetComponentRiskProfile(experiments, component_knowledge, risk_profiles,
                                 StrParam(experiment.parameters, "target_component").s)

(***************************************************************************)
(* ExperimentPredictor.predict_outcome                                     *)
(***************************************************************************)
PredictCall(experiment, system_analysis, second, importances) ==
    /\ pc = "idle"
    /\ LET profiles == ProfilesAfterPrediction(experiment)
       IN  /\ risk_profiles' = profiles
           /\ call' = [op |-> "predict_outcome", experiment |-> experiment,
                       system_analysis |-> system_analysis,
                       result |-> Prediction(experiment, profiles, second, importances)]
    /\ pc' = "returned"
    /\ UNCHANGED <<experiments, component_knowledge, relationship_knowledge,
                   scaler, classifier>>

(***************************************************************************)
(* ExperimentPredictor.suggest_improvements                                *)
(***************************************************************************)
SuggestCall(experiment, system_analysis, second, importances) ==
    /\ pc = "idle"
    /\ LET profiles == ProfilesAfterPrediction(experiment)
           current_prediction == Prediction(experiment, profiles, second, importances)
       IN  /\ risk_profiles' = profiles
           /\ call' = [op |-> "suggest_improvements", experiment |-> experiment,
                       system_analysis |-> system_analysis,
                       current_prediction |-> current_prediction,
                       result |-> SuggestImprovements(experiment, current_prediction)]
    /\ pc' = "returned"
    /\ UNCHANGED <<experiments, component_knowledge, relationship_knowledge,
                   scaler, classifier>>

(***************************************************************************)
(* ExperimentPredictor.analyze_trends                                      *)
(***************************************************************************)
TrendsCall ==
    /\ pc = "idle"
    /\ pc' = "returned"
    /\ call' = [op |-> "analyze_trends", result |-> AnalyzeTrends(experiments)]
    /\ UNCHANGED <<experiments, component_knowledge, relationship_knowledge,
                   risk_profiles, scaler, classifier>>

(***************************************************************************)
(* add_experiment taken one statement group at a time, as a second thread  *)
(* sees it: the code holds no lock, so a reader may run between any two of *)
(* them.  Here pc is the position of the thread inside add_experiment, the *)
(* record being added is the last of the history, and call is what the     *)
(* reading thread got.                                                     *)
(***************************************************************************)
\* the memory argument of the add_experiment under way
AddedMemory == experiments[Len(experiments)]

\* self.experiments.append(memory)
AppendStep(memory) ==
    /\ pc = "idle"
    /\ Len(experiments) < MaxHist
    /\ experiments' = AppendMemory(experiments, memory)
    /\ pc' = "appended"
    /\ UNCHANGED <<component_knowledge, relationship_knowledge, risk_profiles,
                   scaler, classifier, call>>

\* _update_knowledge: the component knowledge
KnowledgeStep ==
    /\ pc = "appended"
    /\ component_knowledge' = UpdateComponentKnowledge(component_knowledge, AddedMemory)
    /\ pc' = "knowledge_updated"
    /\ UNCHANGED <<experiments, relationship_knowledge, risk_profiles,
                   scaler, classifier, call>>

\* _update_knowledge: the relationship weights
RelationshipsStep ==
    /\ pc = "knowledge_updated"
    /\ relationship_knowledge' = UpdateRelationships(relationship_knowledge, AddedMemory)
    /\ pc' = "relationships_updated"
    /\ UNCHANGED <<experiments, component_knowledge, risk_profiles,
                   scaler, classifier, call>>

\* _update_knowledge: self._build_risk_profile(memory.target_component),
\* after which add_experiment returns
ProfileStep ==
    /\ pc = "relationships_updated"
    /\ risk_profiles' = BuildRiskProfile(experiments, component_knowledge, risk_profiles,
                                         AddedMemory.target_component)
    /\ pc' = "idle"
    /\ UNCHANGED <<experiments, component_knowledge, relationship_knowledge,
                   scaler, classifier, call>>

\* the store reads of the planner (get_similar_experiments, then
\* get_component_risk_profile, then get_component_relationships) by another
\* thread, wherever the adding thread is
ReaderCall(experiment) ==
    /\ LET target == experiment.parameters.target_component.s
           profiles == GetComponentRiskProfile(experiments, component_knowledge,
                                               risk_profiles, target)
       IN  /\ risk_profiles' = profiles
           /\ call' = [op |-> "read", experiment |-> experiment, component |-> target,
                       during |-> pc,
                       history |-> experiments,
                       similar |-> GetSimilarExperiments(experiments, experiment,
                                                         DefaultThreshold),
                       risk_profile |-> profiles[target],
                       relationships |-> GetComponentRelationships(
                                             relationship_knowledge, target)]
    /\ UNCHANGED <<experiments, component_knowledge, relationship_knowledge,
                   scaler, classifier, pc>>

\* the caller has the returned value and may issue its next call
Return ==
    /\ pc = "returned"
    /\ pc' = "idle"
    /\ call' = NoCall
    /\ UNCHANGED <<experiments, component_knowledge, relationship_knowledge,
                   risk_profiles, scaler, classifier>>

Next ==
    \/ \E memory \in Memories : AddExperiment(memory)
    \/ \E experiment \in Candidates, threshold \in Thresholds :
          SimilarCall(experiment, threshold)
    \/ \E component \in Queried : RiskProfileCall(component)
    \/ \E component \in Queried : RelationshipsCall(component)
    \/ \E experiment \in Candidates, system_analysis \in Analyses :
          EnhanceCall(experiment, system_analysis)
    \/ \E experiment \in Candidates, system_analysis \in Analyses :
          RiskCall(experiment, system_analysis)
    \/ Return

Spec == Init /\ [][Next]_vars

(***************************************************************************)
(* The validator alone: it shares nothing with the store.                  *)
(***************************************************************************)
ValidatorNext ==
    \/ \E experiment \in ValidatorExperiments, system_analysis \in ValidatorAnalyses :
          ValidateCall(experiment, system_analysis)
    \/ \E violations \in ViolationLists, warnings \in WarningLists :
          RiskLevelCall(violations, warnings)
    \/ Return

ValidatorSpec == Init /\ [][ValidatorNext]_vars

(***************************************************************************)
(* The predictor over its store.                                           *)
(***************************************************************************)
PredictorNext ==
    \/ \E memory \in TrainingMemories : AddExperiment(memory)
    \/ TrainCall
    \/ \E experiment \in PredictorCandidates, system_analysis \in {AnalysisFixture},
          second \in ClassProbabilities, importances \in Importances :
          PredictCall(experiment, system_analysis, second, importances)
    \/ \E experiment \in PredictorCandidates, system_analysis \in {AnalysisFixture},
          second \in ClassProbabilities, importances \in Importances :
          SuggestCall(experiment, system_analysis, second, importances)
    \/ TrendsCall
    \/ Return

PredictorSpec == Init /\ [][PredictorNext]_vars

(***************************************************************************)
(* The store shared by a thread that adds and a thread that reads.         *)
(***************************************************************************)
Readers == {CandTestAdjust, CandDb}

ConcurrentNext ==
    \/ \E memory \in Memories : AppendStep(memory)
    \/ KnowledgeStep
    \/ RelationshipsStep
    \/ ProfileStep
    \/ \E experiment \in Readers : ReaderCall(experiment)

ConcurrentSpec == Init /\ [][ConcurrentNext]_vars

(***************************************************************************)
(* Properties.                                                             *)
(***************************************************************************)
store == <<experiments, component_knowledge, relationship_knowledge, risk_profiles>>

\* the positions in history of the records of a component
RecordsOf(component) ==
    {i \in 1..Len(experiments) : experiments[i].target_component = component}

SuccessesOf(component) ==
    {i \in RecordsOf(component) :
        experiments[i].outcome \in {"success", "partial_success"}}

RECURSIVE AffectedTotal(_)
AffectedTotal(S) ==
    IF S = {} THEN 0
    ELSE LET i == CHOOSE j \in S : TRUE
         IN  Len(experiments[i].affected_components) + AffectedTotal(S \ {i})

\* C1: whenever get_component_risk_profile answers for a component that has
\* records, success_rate is (records ending success or partial_success) /
\* (records) and risk_score is (1 - success_rate) * (mean number of affected
\* components), over the whole history of the component, whether or not a
\* default profile had been cached for it before its first record.
ProfileFollowsHistory ==
    (call.op = "get_component_risk_profile" /\ RecordsOf(call.component) # {}) =>
        LET n == Cardinality(RecordsOf(call.component))
            k == Cardinality(SuccessesOf(call.component))
            a == AffectedTotal(RecordsOf(call.component))
            p == call.result
        IN  /\ p.success_rate.d > 0 /\ p.risk_score.d > 0
            /\ p.success_rate.n * n = k * p.success_rate.d
            /\ p.risk_score.n * n * n = (n - k) * a * p.risk_score.d

ProfileFollowsHistoryWitness ==
    /\ call.op = "get_component_risk_profile"
    /\ call.component = UserService
    /\ experiments = <<Exp1, Exp2>>
    /\ call.result.success_rate = Frac(1, 2)

\* C2: get_component_risk_profile for a component without records returns
\* success_rate 0.5, risk_score 0.5, no safe ranges and no failure patterns.
NeutralDefault ==
    (call.op = "get_component_risk_profile" /\ RecordsOf(call.component) = {}) =>
        /\ call.result.success_rate = [n |-> 1, d |-> 2]
        /\ call.result.risk_score = [n |-> 1, d |-> 2]
        /\ DOMAIN call.result.safe_parameter_ranges = {}
        /\ Len(call.result.failure_patterns) = 0

NeutralDefaultWitness ==
    /\ call.op = "get_component_risk_profile"
    /\ call.component = Db
    /\ RecordsOf(Db) = {}
    /\ Len(experiments) = 2
    /\ Db \in DOMAIN risk_profiles

\* C3: a step lengthens history by exactly the record passed to
\* add_experiment, at the end, when it is an add_experiment call, and leaves
\* history as it is otherwise (reads of the store and planner calls included).
HistoryAppendOnly ==
    [][IF call'.op = "add_experiment"
       THEN experiments' = experiments \o <<call'.memory>>
       ELSE experiments' = experiments]_vars

HistoryAppendOnlyWitness ==
    /\ call.op = "enhance_experiment"
    /\ ~call.result.raised
    /\ experiments = <<Exp2, Exp1>>

\* the similarity of the spec reaches the threshold, in integers:
\* 0.3 t + 0.3 g + 0.2 a1/b1 + 0.2 a2/b2 >= n/d
MeetsThreshold(candidate, record, threshold) ==
    LET t == IF candidate.type = record.experiment_type THEN 1 ELSE 0
        g == IF candidate.parameters.target_component.s = record.target_component
             THEN 1 ELSE 0
        pa == DOMAIN candidate.parameters
        pb == DOMAIN record.parameters
        ca == IF "affected_components" \in DOMAIN candidate
              THEN {candidate.affected_components[i] :
                      i \in 1..Len(candidate.affected_components)}
              ELSE {}
        cb == {record.affected_components[i] : i \in 1..Len(record.affected_components)}
        a1 == Cardinality(pa \cap pb)
        b1 == IF pa \cup pb = {} THEN 1 ELSE Cardinality(pa \cup pb)
        a2 == Cardinality(ca \cap cb)
        b2 == IF ca \cup cb = {} THEN 1 ELSE Cardinality(ca \cup cb)
    IN  threshold.d * ((3 * t + 3 * g) * b1 * b2 + 2 * a1 * b2 + 2 * a2 * b1)
            >= 10 * threshold.n * b1 * b2

CoOccurrences(component, other) ==
    Cardinality({i \in RecordsOf(component) :
                   \E j \in 1..Len(experiments[i].affected_components) :
                      experiments[i].affected_components[j] = other})

Named == {UserService, AuthService, OrderService, Db, CacheX}

\* C5: get_component_relationships(c) maps o to the number of records with
\* target c whose affected components include o, has no entry where that
\* number is 0 (so it is empty for a component that never was such a target),
\* and leaves the store as it was.
RelationshipsCount ==
    [][call'.op = "get_component_relationships" =>
         /\ call'.result =
              [o \in {x \in Named : CoOccurrences(call'.component, x) > 0} |->
                  CoOccurrences(call'.component, o)]
         /\ UNCHANGED store]_vars

RelationshipsCountWitness ==
    /\ call.op = "get_component_relationships"
    /\ call.component = UserService
    /\ experiments = <<Exp1, Exp2>>
    /\ call.result[AuthService] = 2
    /\ call.result[OrderService] = 1

\* the profile of the target of the planner call under way
TargetProfile == risk_profiles[call.experiment.parameters.target_component.s]

\* C6: in the experiment returned by enhance_experiment every numeric
\* parameter of the candidate that has a safe range in the profile of the
\* target lies within that range.
ClampedIntoRange ==
    (call.op = "enhance_experiment" /\ ~call.result.raised) =>
        \A p \in DOMAIN call.experiment.parameters :
            (/\ p \in DOMAIN TargetProfile.safe_parameter_ranges
             /\ call.experiment.parameters[p].k = "num") =>
                LET range == TargetProfile.safe_parameter_ranges[p]
                    value == call.result.value.parameters[p]
                IN  ~VLt(value, range.min) /\ ~VLt(range.max, value)

\* the durations, in seconds, of the successful records similar to the
\* candidate of the call under way (their duration fields all being "<n>s")
SuccessfulSimilar ==
    SelectSeq(experiments, LAMBDA record :
        /\ MeetsThreshold(call.experiment, record, [n |-> 7, d |-> 10])
        /\ record.outcome \in {"success", "partial_success"})

\* the k-th smallest of a non-empty sequence of records' durations
KthDuration(records, k) ==
    CHOOSE v \in {records[i].duration.n : i \in 1..Len(records)} :
        /\ Cardinality({i \in 1..Len(records) : records[i].duration.n < v}) < k
        /\ Cardinality({i \in 1..Len(records) : records[i].duration.n <= v}) >= k

MedianDuration(records) ==
    LET n == Len(records)
    IN  IF n % 2 = 1 THEN KthDuration(records, (n + 1) \div 2)
        ELSE (KthDuration(records, n \div 2) + KthDuration(records, n \div 2 + 1)) \div 2

CarriedDuration(experiment) ==
    IF "duration" \in DOMAIN experiment THEN experiment.duration
    ELSE IF "duration" \in DOMAIN experiment.parameters THEN experiment.parameters.duration
    ELSE [k |-> "str", n |-> 30, s |-> "s"]

\* C8 as stated: against the history of the fixture, enhance_experiment of
\* {type: network_failure, parameters: {target_component: user-service,
\* duration: "90s"}} returns an experiment of at most 30 seconds.
SpecScenarioShortened ==
    (/\ call.op = "enhance_experiment"
     /\ call.experiment = CandSpecDuration
     /\ experiments = <<Exp1, Exp2>>) =>
        /\ ~call.result.raised
        /\ CarriedDuration(call.result.value).s = "s"
        /\ CarriedDuration(call.result.value).n <= 30

\* C8 amended: against the history of the fixture, enhance_experiment of
\* {type: network_failure, parameters: {target_component: user-service,
\* failure_type: latency, latency_ms: 2000}, duration: "90s"} returns an
\* experiment whose duration field is "30s".
TestScenarioShortened ==
    (/\ call.op = "enhance_experiment"
     /\ call.experiment = CandTestDuration
     /\ experiments = <<Exp1, Exp2>>) =>
        /\ ~call.result.raised
        /\ "duration" \in DOMAIN call.result.value
        /\ call.result.value.duration = [k |-> "str", n |-> 30, s |-> "s"]

TestScenarioShortenedWitness ==
    /\ call.op = "enhance_experiment"
    /\ call.experiment = CandTestDuration
    /\ experiments = <<Exp1, Exp2>>
    /\ CarriedDuration(call.result.value).n = 30

InUnitInterval(x) == x.d > 0 /\ 0 <= x.n /\ x.n <= x.d

\* C9: the total_risk and the base_risk returned by calculate_experiment_risk
\* lie in [0, 1].
TotalRiskBounded ==
    (call.op = "calculate_experiment_risk" /\ ~call.result.raised) =>
        /\ InUnitInterval(call.result.value.total_risk)
        /\ InUnitInterval(call.result.value.base_risk)

\* C10: the parameter risk of calculate_experiment_risk is defined (no
\* division fails) and lies in [0, 1].
ParameterRiskBounded ==
    call.op = "calculate_experiment_risk" =>
        IF call.result.raised THEN call.result.error # "ZeroDivisionError"
        ELSE InUnitInterval(call.result.value.parameter_risk)

(***************************************************************************)
(* Validator properties.                                                   *)
(***************************************************************************)
\* the rule names of a list of violations or warnings
RuleNames(entries) == {entries[i].rule : i \in 1..Len(entries)}

\* how many entries of a list carry the rule name
CountOf(entries, name) == Cardinality({i \in 1..Len(entries) : entries[i].rule = name})

\* the level the rule names and the sizes of the two lists call for
LevelOf(violations, warnings) ==
    IF "has_rollback" \in RuleNames(violations) THEN "critical"
    ELSE IF violations # <<>> THEN "high"
    ELSE IF Len(warnings) >= 3 THEN "medium"
    ELSE "low"

\* no rollback_procedure, or one without a steps field
LacksRollbackSteps(experiment) ==
    \/ "rollback_procedure" \notin DOMAIN experiment
    \/ "steps" \notin DOMAIN experiment.rollback_procedure.d

\* C11: risk_level is critical if a violation is named has_rollback, else
\* high if there is a violation, else medium if there are more than 2
\* warnings, else low; an experiment with no rollback_procedure, or one
\* without steps, is unsafe with a has_rollback violation and level critical.
RiskLevelFollowsViolations ==
    /\ call.op = "_calculate_risk_level" =>
          call.result = LevelOf(call.violations, call.warnings)
    /\ call.op = "validate_experiment" =>
          /\ call.result.risk_level =
                LevelOf(call.result.violations, call.result.warnings)
          /\ LacksRollbackSteps(call.experiment) =>
                /\ call.result.is_safe = FALSE
                /\ "has_rollback" \in RuleNames(call.result.violations)
                /\ call.result.risk_level = "critical"

RiskLevelFollowsViolationsWitness ==
    /\ call.op = "validate_experiment"
    /\ call.experiment = UnsafeExperiment
    /\ call.system_analysis = DocAnalysis
    /\ call.result.is_safe = FALSE
    /\ RuleNames(call.result.violations) = {"has_rollback"}
    /\ call.result.risk_level = "critical"

\* the rules validate_experiment evaluates: the general group, then the
\* group of the resolved type
EvaluatedRules(experiment) ==
    SafetyRules.general \o RulesOf(DetermineExperimentType(experiment))

\* the outcome of the check of the k-th evaluated rule of the call
CheckOf(k) ==
    Validate(EvaluatedRules(call.experiment)[k].validator, call.experiment,
             call.system_analysis)

\* how often a rule is among the evaluated ones: twice when the type of the
\* experiment names the general group
TimesEvaluated(rules, name) ==
    Cardinality({j \in 1..Len(rules) : rules[j].name = name})

RuleFails(k) == ~CheckOf(k).raised /\ ~CheckOf(k).value.passed
RulePasses(k) == ~CheckOf(k).raised /\ CheckOf(k).value.passed

\* C12: every evaluated rule that fails contributes exactly one entry each
\* time it is evaluated, a violation if its severity is high or critical
\* and a warning otherwise;
\* rules that pass contribute nothing; is_safe holds exactly when there is
\* no violation.
FailedRulesClassified ==
    call.op = "validate_experiment" =>
        LET rules == EvaluatedRules(call.experiment)
            violations == call.result.violations
            warnings == call.result.warnings
        IN  /\ \A k \in 1..Len(rules) :
                  /\ RuleFails(k) /\ rules[k].severity \in {"high", "critical"} =>
                        /\ CountOf(violations, rules[k].name)
                              = TimesEvaluated(rules, rules[k].name)
                        /\ CountOf(warnings, rules[k].name) = 0
                  /\ RuleFails(k) /\ rules[k].severity \notin {"high", "critical"} =>
                        /\ CountOf(violations, rules[k].name) = 0
                        /\ CountOf(warnings, rules[k].name)
                              = TimesEvaluated(rules, rules[k].name)
                  /\ RulePasses(k) =>
                        /\ CountOf(violations, rules[k].name) = 0
                        /\ CountOf(warnings, rules[k].name) = 0
            /\ call.result.is_safe <=> violations = <<>>

\* a safe result with a warning: a medium rule failed, no other did
FailedRulesClassifiedWitness ==
    /\ call.op = "validate_experiment"
    /\ call.result.is_safe
    /\ RuleNames(call.result.warnings) = {"has_cache"}
    /\ \E k \in 1..Len(EvaluatedRules(call.experiment)) : RulePasses(k)

\* the duration matches ^(\d+)([smh])$
WellFormedDuration(duration) ==
    duration.k = "str" /\ duration.n >= 0 /\ duration.s \in {"s", "m", "h"}

\* a well-formed duration in seconds
SecondsOf(duration) ==
    duration.n * (CASE duration.s = "s" -> 1 [] duration.s = "m" -> 60
                    [] duration.s = "h" -> 3600)

\* the has_timeout entries among the violations of the call
TimeoutViolations ==
    SelectSeq(call.result.violations, LAMBDA v : v.rule = "has_timeout")

RuleErrorsBecomeViolations ==
    call.op = "validate_experiment" =>
        LET rules == EvaluatedRules(call.experiment)
            violations == call.result.violations
            params == IF "parameters" \in DOMAIN call.experiment
                      THEN call.experiment.parameters ELSE EmptyDict
        IN  /\ DOMAIN call.result =
                  {"is_safe", "risk_level", "violations", "warnings", "recommendations"}
            /\ \A k \in 1..Len(rules) :
                  CheckOf(k).raised =>
                     /\ CountOf(violations, rules[k].name)
                           = TimesEvaluated(rules, rules[k].name)
                     /\ \A j \in (k + 1)..Len(rules) :
                           ~RulePasses(j) =>
                              CountOf(violations \o call.result.warnings,
                                      rules[j].name)
                                  = TimesEvaluated(rules, rules[j].name)
            /\ "target_component" \notin DOMAIN params =>
                  "has_monitoring" \in RuleNames(violations)
            /\ ("duration" \in DOMAIN params /\ params.duration.k = "str"
                    /\ ~WellFormedDuration(params.duration)) =>
                  "has_timeout" \in RuleNames(violations)

\* has_monitoring raised on a document that is no container, and the
\* has_timeout rule after it still reported its violation
RuleErrorsBecomeViolationsWitness ==
    /\ call.op = "validate_experiment"
    /\ call.system_analysis = CountedAnalysis
    /\ \E i \in 1..Len(call.result.violations) :
          /\ call.result.violations[i].rule = "has_monitoring"
          /\ call.result.violations[i].description = "Error validating rule"
          /\ \E j \in (i + 1)..Len(call.result.violations) :
                call.result.violations[j].rule = "has_timeout"

(***************************************************************************)
(* Predictor properties.                                                   *)
(***************************************************************************)
\* an experiment the features can be extracted from: parameters with a
\* numeric latency_ms if any, and a duration "<n>s" if any
WellFormed(experiment) ==
    /\ "parameters" \in DOMAIN experiment
    /\ "latency_ms" \in DOMAIN experiment.parameters =>
          experiment.parameters.latency_ms.k = "num"
    /\ "duration" \in DOMAIN experiment =>
          /\ experiment.duration.k = "str"
          /\ experiment.duration.n >= 0
          /\ experiment.duration.s = "s"

\* C15: once train_model has run, whatever the history (empty, or all of
\* one outcome class), predict_outcome on a well-formed experiment returns
\* {predicted_outcome, success_probability, confidence,
\* contributing_factors} and does not raise.
AnswersOnceTrained ==
    (call.op = "predict_outcome" /\ classifier.fitted /\ WellFormed(call.experiment)) =>
        /\ ~call.result.raised
        /\ DOMAIN call.result.value =
              {"predicted_outcome", "success_probability", "confidence",
               "contributing_factors"}

\* C16: in every state of the predictor, also right after construction and
\* before train_model was ever called, predict_outcome on a well-formed
\* experiment does not raise a "not fitted" error.
NeverNotFitted ==
    (call.op = "predict_outcome" /\ WellFormed(call.experiment)) =>
        IF call.result.raised THEN call.result.error # "NotFittedError" ELSE TRUE

\* the suggestions the prediction and the experiment of the call ask for
LatencyAsked ==
    /\ RLt(call.current_prediction.value.success_probability, Frac(7, 10))
    /\ "latency_ms" \in DOMAIN call.experiment.parameters
DurationAsked ==
    /\ RLt(call.current_prediction.value.success_probability, Frac(7, 10))
    /\ "duration" \in DOMAIN call.experiment
    /\ call.experiment.duration.s = "s"
    /\ call.experiment.duration.n > 30

TypesOf(suggestions) == {suggestions[i].type : i \in 1..Len(suggestions)}

\* C17: suggest_improvements never returns an empty list: with neither a
\* latency nor a duration suggestion the result is the one generic
\* monitoring suggestion, otherwise it holds the suggestions produced.
NeverEmptySuggestions ==
    (call.op = "suggest_improvements" /\ ~call.result.raised) =>
        LET suggestions == call.result.value
        IN  /\ suggestions # <<>>
            /\ (~LatencyAsked /\ ~DurationAsked) =>
                  /\ Len(suggestions) = 1
                  /\ suggestions[1].type = "monitoring_adjustment"
            /\ LatencyAsked => "parameter_adjustment" \in TypesOf(suggestions)
            /\ DurationAsked => "duration_adjustment" \in TypesOf(suggestions)
            /\ (LatencyAsked \/ DurationAsked) =>
                  "monitoring_adjustment" \notin TypesOf(suggestions)

\* a low success probability, yet nothing to adjust: the generic suggestion
NeverEmptySuggestionsWitness ==
    /\ call.op = "suggest_improvements"
    /\ ~call.result.raised
    /\ call.current_prediction.value.success_probability = Frac(3, 10)
    /\ ~LatencyAsked /\ ~DurationAsked
    /\ TypesOf(call.result.value) = {"monitoring_adjustment"}

\* C18: validate_experiment finds safe the experiment of the test (rollback
\* steps, duration "30s", a type without rule group, a target listed with
\* monitoring) under the system analysis as the test passes it, a mapping
\* with a top-level components list.
TestExperimentSafe ==
    (call.op = "validate_experiment" /\ call.experiment = SafeExperiment
        /\ call.system_analysis = FlatAnalysis) =>
        call.result.is_safe

(***************************************************************************)
(* Planner properties, continued.                                          *)
(***************************************************************************)
\* C19: the result of calculate_experiment_risk has a risk_level among
\* low, medium, high and a non-empty risk_factors.
RiskHasLevelAndFactors ==
    (call.op = "calculate_experiment_risk" /\ ~call.result.raised) =>
        /\ {"risk_level", "risk_factors"} \subseteq DOMAIN call.result.value
        /\ call.result.value.risk_level \in {"low", "medium", "high"}
        /\ Len(call.result.value.risk_factors) > 0

\* C20: enhance_experiment leaves the candidate of its caller untouched:
\* parameters, safety_checks, monitoring and duration are after the call
\* what they were before it.
CallerCandidateUntouched ==
    call.op = "enhance_experiment" =>
        \A field \in {"parameters", "safety_checks", "monitoring", "duration"} :
            IF field \in DOMAIN call.experiment
            THEN /\ field \in DOMAIN call.result.caller
                 /\ call.result.caller[field] = call.experiment[field]
            ELSE field \notin DOMAIN call.result.caller

(***************************************************************************)
(* Planner properties on well-formed input.                                *)
(***************************************************************************)
\* a duration written "<int><s|m|h>"
DurationForm(v) == v.k = "str" /\ v.n >= 0 /\ v.s \in {"s", "m", "h"}

\* the candidate has type and parameters.target_component, and its duration,
\* wherever it is written, has the form
WellFormedCandidate(experiment) ==
    /\ "type" \in DOMAIN experiment
    /\ "parameters" \in DOMAIN experiment
    /\ "target_component" \in DOMAIN experiment.parameters
    /\ DurationForm(DurationField(experiment))
    /\ "duration" \in DOMAIN experiment.parameters
           => DurationForm(experiment.parameters.duration)

WellFormedHistory == \A i \in 1..Len(experiments) : DurationForm(experiments[i].duration)

\* C21: enhance_experiment and calculate_experiment_risk return a result,
\* without raising, for every candidate with type, target component and a
\* duration "<int><s|m|h>", against every history whose durations have that
\* form.
PlannerAnswersWellFormed ==
    (/\ call.op \in {"enhance_experiment", "calculate_experiment_risk"}
     /\ WellFormedCandidate(call.experiment)
     /\ WellFormedHistory)
        => ~call.result.raised

\* the names of a list of safety checks
CheckNames(checks) == {checks[i].name : i \in 1..Len(checks)}

\* experiment.get("safety_checks", [])
GivenChecks(experiment) ==
    IF "safety_checks" \in DOMAIN experiment THEN experiment.safety_checks ELSE <<>>

\* C22: the experiment returned by enhance_experiment has safety checks
\* named monitoring, rollback and timeout, its monitoring.metrics contain
\* cpu_usage, memory_usage, error_rate and latency, and the checks the
\* candidate came with are retained, in their places.
EnhancedHasSafetyAndMetrics ==
    (call.op = "enhance_experiment" /\ ~call.result.raised) =>
        LET enhanced == call.result.value
            given == GivenChecks(call.experiment)
        IN  /\ {"monitoring", "rollback", "timeout"} \subseteq CheckNames(enhanced.safety_checks)
            /\ SeqToSet(BaseMetrics) \subseteq SeqToSet(enhanced.monitoring.metrics)
            /\ Len(enhanced.safety_checks) >= Len(given) + 3
            /\ SubSeq(enhanced.safety_checks, 1, Len(given)) = given

\* a candidate that came with a check and a monitoring entry of its own gets
\* the basic checks after its own and keeps its monitoring entry; its target
\* is a cache, so the cache metrics follow the basic ones
EnhancedHasSafetyAndMetricsWitness ==
    /\ call.op = "enhance_experiment"
    /\ ~call.result.raised
    /\ call.experiment = CandUnknown
    /\ call.system_analysis = AnalysisStores
    /\ Len(call.result.value.safety_checks) = 4
    /\ call.result.value.monitoring.dashboard = "main"
    /\ Len(call.result.value.monitoring.metrics) = 7

(***************************************************************************)
(* The store under a concurrent reader.                                    *)
(***************************************************************************)
\* the positions of the records of a component in a history
RecordsIn(history, component) ==
    {i \in 1..Len(history) : history[i].target_component = component}

\* how often other was affected by the experiments on component in a history
WeightIn(history, component, other) ==
    Cardinality({i \in RecordsIn(history, component) :
                   \E j \in 1..Len(history[i].affected_components) :
                      history[i].affected_components[j] = other})

\* .get(other, 0)
WeightOf(relationships, other) ==
    IF other \in DOMAIN relationships THEN relationships[other] ELSE 0

\* C23: a reader running while add_experiment is under way sees a history,
\* relationship weights and a risk profile that come from the same records:
\* the success rate it reads is the one of the history it reads, and so are
\* the weights.
ReaderSeesOneStore ==
    call.op = "read" =>
        LET records == RecordsIn(call.history, call.component)
            successes == {i \in records : IsSuccessful(call.history[i])}
        IN  /\ records # {} =>
                  call.risk_profile.success_rate
                      = Frac(Cardinality(successes), Cardinality(records))
            /\ \A other \in Named :
                  WeightOf(call.relationships, other)
                      = WeightIn(call.history, call.component, other)

\* the rule group the category of an experiment calls for: the explicit type
\* decides (the name of a group, or network_failure for the network group),
\* the words of the name do when there is no type field
GroupFor(experiment) ==
    IF "type" \in DOMAIN experiment
    THEN IF experiment.type \in {"network_failure", "network"} THEN "network"
         ELSE IF experiment.type \in {"resource", "dependency"} THEN experiment.type
         ELSE NoType
    ELSE IF NameContains(experiment, "network_failure") THEN "network"
    ELSE IF NameContains(experiment, "resource") THEN "resource"
    ELSE IF NameContains(experiment, "dependency") THEN "dependency"
    ELSE NoType

\* the rules of a group that fail on the experiment of the call
FailingIn(group) ==
    LET rules == RulesOf(group)
    IN  {rules[k].name : k \in {j \in 1..Len(rules) :
            LET check == Validate(rules[j].validator, call.experiment,
                                  call.system_analysis)
            IN  ~check.raised /\ ~check.value.passed}}

\* C24: after the general rules validate_experiment applies the group of the
\* experiment's category (explicit type network_failure, or without a type a
\* name containing network_failure, gives the network rules has_fallback and
\* has_retry; likewise resource and dependency), so that every failing rule
\* of that group is reported; an unresolved category gets the general rules
\* only.
CategoryGroupApplied ==
    call.op = "validate_experiment" =>
        LET group == GroupFor(call.experiment)
            reported == RuleNames(call.result.violations)
                            \cup RuleNames(call.result.warnings)
        IN  IF group = NoType
            THEN reported \subseteq {"has_rollback", "has_monitoring", "has_timeout"}
            ELSE FailingIn(group) \subseteq reported

\* the property keys a category rule looks for
KeysOf(rule) ==
    CASE rule = "has_fallback" -> {"fallback", "failover", "backup"}
      [] rule = "has_retry" -> {"retry"}
      [] rule = "has_limits" -> {"resource_limits", "cpu_limit", "memory_limit"}
      [] rule = "has_autoscaling" -> {"autoscaling"}
      [] rule = "has_circuit_breaker" -> {"circuit_breaker"}
      [] rule = "has_cache" -> {"cache", "caching", "redis"}
      [] OTHER -> {}

\* the components the documents of a system analysis list
ListedComponents(system_analysis) ==
    UNION {SeqToSet(system_analysis[i].value.d.components) :
             i \in {j \in 1..Len(system_analysis) :
                      /\ system_analysis[j].value.kind = "dict"
                      /\ "components" \in DOMAIN system_analysis[j].value.d}}

\* the analysis lists the target with one of the keys
TargetHasKey(system_analysis, target, keys) ==
    \E comp \in ListedComponents(system_analysis) :
        /\ "name" \in DOMAIN comp
        /\ Word(comp.name) = target
        /\ PropertiesOf(comp) \cap keys # {}

\* the category rules validate_experiment evaluates for the experiment
CategoryRules(experiment) == RulesOf(DetermineExperimentType(experiment))

\* C25: a category rule (has_fallback, has_retry, has_limits,
\* has_autoscaling, has_circuit_breaker, has_cache) that is evaluated passes
\* only if the system analysis lists the target component with one of the
\* rule's keys; when no such key is present for the target, also when the
\* target is not in the analysis at all, the rule is reported as failed.
CategoryRuleNeedsKey ==
    call.op = "validate_experiment" =>
        LET rules == CategoryRules(call.experiment)
            reported == RuleNames(call.result.violations)
                            \cup RuleNames(call.result.warnings)
        IN  \A k \in 1..Len(rules) :
                ~TargetHasKey(call.system_analysis, TargetOf(call.experiment),
                              KeysOf(rules[k].name))
                    => rules[k].name \in reported

\* the success probability of the prediction of the call is below 0.7
LowSuccess == RLt(call.current_prediction.value.success_probability, LowProbability)

\* C26: suggest_improvements emits a latency_ms parameter_adjustment only
\* when the predicted success probability is below 0.7 and latency_ms is
\* present and above 2000, the suggested value then being 2000, and a
\* duration_adjustment (to "30s") only when the probability is below 0.7 and
\* the duration exceeds 30 seconds.
SuggestionsOnlyWhenNeeded ==
    (call.op = "suggest_improvements" /\ ~call.result.raised) =>
        \A i \in 1..Len(call.result.value) :
            LET suggestion == call.result.value[i]
            IN  /\ suggestion.type = "parameter_adjustment" =>
                      /\ LowSuccess
                      /\ "latency_ms" \in DOMAIN call.experiment.parameters
                      /\ VLt(SafeLatency, call.experiment.parameters.latency_ms)
                      /\ suggestion.suggested_value = SafeLatency
                /\ suggestion.type = "duration_adjustment" =>
                      /\ LowSuccess
                      /\ call.experiment.duration.s = "s"
                      /\ call.experiment.duration.n > ShortSeconds
                      /\ suggestion.suggested_duration = DurStr(ShortSeconds, "s")

\* 1 for a record that ended in success or partial success, 0 otherwise
LabelsOf(history) == [i \in 1..Len(history) |-> IF IsSuccessful(history[i]) THEN 1 ELSE 0]

\* C27: train_model labels each record 1 exactly when its outcome is success
\* or partial success, fits the scaler, and fits the classifier on the
\* features the scaler standardized, the space predict_outcome queries it in.
TrainedWhereQueried ==
    (call.op = "train_model" /\ ~call.raised /\ experiments # <<>>) =>
        /\ classifier.labels = LabelsOf(experiments)
        /\ scaler = "fitted"
        /\ classifier.trained_on = QueriedOn

\* the sum of the experiment totals of the hour buckets from hour on
RECURSIVE BucketTotal(_, _)
BucketTotal(time_patterns, hour) ==
    IF hour \notin DOMAIN time_patterns THEN 0
    ELSE time_patterns[hour].total_experiments + BucketTotal(time_patterns, hour + 1)

\* C28: for every history, the empty one included, analyze_trends returns
\* time_patterns, component_patterns, parameter_trends and
\* overall_success_rate; time_patterns has the 24 hour buckets, whose totals
\* add up to the history length; overall_success_rate is the share of
\* records that ended in success or partial success; each component's
\* success rate is the one of its risk profile.
TrendsCoverHistory ==
    call.op = "analyze_trends" =>
        LET trends == call.result
        IN  /\ DOMAIN trends = {"time_patterns", "component_patterns",
                                "parameter_trends", "overall_success_rate"}
            /\ DOMAIN trends.time_patterns = 0..23
            /\ BucketTotal(trends.time_patterns, 0) = Len(experiments)
            /\ experiments # <<>> =>
                  trends.overall_success_rate
                      = Frac(Cardinality({i \in 1..Len(experiments) :
                                             IsSuccessful(experiments[i])}),
                             Len(experiments))
            /\ \A component \in DOMAIN trends.component_patterns :
                  trends.component_patterns[component].success_rate
                      = GetComponentRiskProfile(experiments, component_knowledge,
                            risk_profiles, component)[component].success_rate

\* the values a parameter took in the successful records of a component
SuccessfulValues(component, param) ==
    {experiments[i].parameters[param] :
        i \in {j \in 1..Len(experiments) :
                 /\ experiments[j].target_component = component
                 /\ IsSuccessful(experiments[j])
                 /\ param \in DOMAIN experiments[j].parameters}}

\* C29: after any sequence of add_experiment calls, every entry of
\* safe_parameter_ranges of every risk profile has a finite min and max with
\* min <= max, both values the parameter took in a successful record of the
\* component, also when successful records carry non-numeric parameters.
SafeRangesFinite ==
    \A component \in DOMAIN risk_profiles :
        \A param \in DOMAIN risk_profiles[component].safe_parameter_ranges :
            LET range == risk_profiles[component].safe_parameter_ranges[param]
            IN  /\ range.min.k = "num" /\ range.max.k = "num"
                /\ ~VLt(range.max, range.min)
                /\ range.min \in SuccessfulValues(component, param)
                /\ range.max \in SuccessfulValues(component, param)

====
